---------------------------- MODULE Spec2Model ----------------------------
(***************************************************************************)
(* A model of the cortex rules engine (github.com/kolosys/cortex).         *)
(*                                                                         *)
(* Spec     the engine driver: AddRule, Close, Evaluate (one loop          *)
(*          iteration per step), the cancellation source and Halt calls    *)
(*          made by a rule or by another goroutine.                        *)
(* SpecCtx  the EvalContext under its reader-writer lock: goroutines       *)
(*          calling Set, Get, RegisterLookup, Lookup and Clone, one lock   *)
(*          operation or one map access per step.                          *)
(* SpecHalt the halt fields of an EvalContext: goroutines calling Halt     *)
(*          while newResult reads IsHalted and HaltedBy.                   *)
(* SpecBuildup  the buildup accumulators: goroutines calling               *)
(*          GetOrCreateBuildup on one context and Add, Current, Count and  *)
(*          Reset on the Buildup objects it returns.                       *)
(* SpecFrame  one caller using a context, its clone and the map Values()   *)
(*          returned, with the maps as objects that can be shared.         *)
(* SpecConc the engine used by several goroutines: AddRule,                *)
(*          RegisterLookup, Close and Evaluate, each goroutine evaluating  *)
(*          its own eval context, one lock operation or one loop           *)
(*          iteration per step.                                            *)
(* SpecLookup  a LookupRule evaluated on an eval context whose values and  *)
(*          registered tables the caller changes between evaluations.      *)
(* SpecRange  RangeLookup.Get on every short list of ranges.               *)
(* SpecAlloc  AllocationRule.Evaluate on every accepted configuration with *)
(*          short target lists, for finite, infinite and NaN sources.      *)
(* SpecParse  expr.Compile and NewFormula on every short input string.     *)
(* SpecNew  NewAssignment and NewFormula on a universe of configurations,  *)
(*          and Evaluate of the rule returned.                             *)
(* SpecEager  formula rules over expressions with &&, || and if.           *)
(* SpecRules  a rule of each of the five variants evaluated on one eval    *)
(*          context, more than once.                                       *)
(* SpecReentry  Evaluate with rules whose functions call AddRule,          *)
(*          RegisterLookup and the operations of the context evaluated;    *)
(*          SpecReentryLive adds that runnable goroutines run.             *)
(* SpecTrace  the spans Evaluate starts and ends on the Tracer.            *)
(* SpecRegistry  AddRules and RegisterLookups on lists of elements.        *)
(* SpecBind  RegisterLookup on the engine and on an eval context, and the  *)
(*          lookups of the engine copied into the context by Evaluate.     *)
(***************************************************************************)
EXTENDS Integers, Sequences, FiniteSets, TLC

VARIABLES
    rules,      \* Engine.rules: the ordered rule list
    ruleIDs,    \* Engine.ruleIDs
    closed,     \* Engine.closed
    config,     \* Engine.config
    ec,         \* the EvalContext handed to Evaluate
    run,        \* the Evaluate call in progress: position, snapshot, errors, return values
    ctxDone,    \* whether ctx.Done() of the call's context.Context has fired
    logs,       \* what the Logger received at Error level (rule ids, in order)
    hist,       \* per executed rule: what it saw in the context and what it left
    evals,      \* number of Evaluate calls made on ec
    cx,         \* SpecCtx: the EvalContexts (the original and its clone), each with its lock
    heap,       \* SpecCtx: the lookup registries (Go maps) the contexts point to
    th,         \* SpecCtx: the goroutines calling EvalContext methods
    obs,        \* SpecCtx: what the Set and Get calls on the original have done so far
    hc,         \* SpecHalt: the halt fields of an EvalContext and its lock
    hth,        \* SpecHalt: the goroutines calling Halt
    asm,        \* SpecHalt: the newResult call assembling a Result
    bm,         \* SpecBuildup: EvalContext.buildups and the context's lock
    bh,         \* SpecBuildup: the Buildup objects created so far
    bth,        \* SpecBuildup: the goroutines calling GetOrCreateBuildup, Add, ...
    bcalls,     \* SpecBuildup: number of calls begun
    fc,         \* SpecFrame: the EvalContexts (the original and its clone)
    fheap,      \* SpecFrame: the Go maps the contexts and the caller hold
    fsnap,      \* SpecFrame: the map Values() returned to the caller
    fid,        \* SpecFrame: idCounter
    flast,      \* SpecFrame: the last call made
    eng,        \* SpecConc: the Engine: rules, ruleIDs, lookups, closed, mu, config
    gth,        \* SpecConc: the goroutines calling the engine
    gev,        \* SpecConc: per goroutine, its eval context and its Evaluate call
    greg,       \* SpecConc: the lookup registries the eval contexts point to
    gobs,       \* SpecConc: what has been observed of the calls so far
    lk,         \* SpecLookup: an eval context: its values, its registered lookups, the last LookupRule.Evaluate
    rg,         \* SpecLookup, SpecRange: the RangeLookup "brackets" and the last Get made on it
    al,         \* SpecAlloc: an AllocationRule, the source value in the context, what Evaluate wrote and returned
    ex,         \* SpecParse: an input string, what Compile returned for it and what NewFormula returned
    nr,         \* SpecNew: a rule configuration, what the constructor returned and what Evaluate of the rule left
    rc,         \* SpecRules: a rule, the eval context it is evaluated on and the last Evaluate
    re,         \* SpecReentry: the engine's and the context's lock and the goroutines in Evaluate
    tr,         \* SpecTrace: an Evaluate call and the spans it has started on the Tracer
    eg          \* SpecRegistry: an engine, the lookups of an eval context and the call in progress

engineVars == <<rules, ruleIDs, closed, config, ec, run, ctxDone, logs, hist, evals>>

ctxVars == <<cx, heap, th, obs>>

haltVars == <<hc, hth, asm>>

buildupVars == <<bm, bh, bth, bcalls>>

frameVars == <<fc, fheap, fsnap, fid, flast>>

concVars == <<eng, gth, gev, greg, gobs>>

lookupVars == <<lk, rg>>

allocVars == <<al>>

exprVars == <<ex>>

newVars == <<nr>>

ruleVars == <<rc>>

reentryVars == <<re>>

traceVars == <<tr>>

registryVars == <<eg>>

vars == <<engineVars, ctxVars, haltVars, buildupVars, frameVars, concVars, lookupVars, allocVars, exprVars, newVars, ruleVars, reentryVars, traceVars, registryVars>>

\* What the actions of one specification leave alone: the other variables
exceptEngine == <<ctxVars, haltVars, buildupVars, frameVars, concVars, lookupVars, allocVars, exprVars, newVars, ruleVars, reentryVars, traceVars, registryVars>>
exceptCtx == <<engineVars, haltVars, buildupVars, frameVars, concVars, lookupVars, allocVars, exprVars, newVars, ruleVars, reentryVars, traceVars, registryVars>>
exceptHalt == <<engineVars, ctxVars, buildupVars, frameVars, concVars, lookupVars, allocVars, exprVars, newVars, ruleVars, reentryVars, traceVars, registryVars>>
exceptBuildup == <<engineVars, ctxVars, haltVars, frameVars, concVars, lookupVars, allocVars, exprVars, newVars, ruleVars, reentryVars, traceVars, registryVars>>
exceptFrame == <<engineVars, ctxVars, haltVars, buildupVars, concVars, lookupVars, allocVars, exprVars, newVars, ruleVars, reentryVars, traceVars, registryVars>>
exceptConc == <<engineVars, ctxVars, haltVars, buildupVars, frameVars, lookupVars, allocVars, exprVars, newVars, ruleVars, reentryVars, traceVars, registryVars>>
exceptLookup == <<engineVars, ctxVars, haltVars, buildupVars, frameVars, concVars, allocVars, exprVars, newVars, ruleVars, reentryVars, traceVars, registryVars>>
exceptAlloc == <<engineVars, ctxVars, haltVars, buildupVars, frameVars, concVars, lookupVars, exprVars, newVars, ruleVars, reentryVars, traceVars, registryVars>>
exceptExpr == <<engineVars, ctxVars, haltVars, buildupVars, frameVars, concVars, lookupVars, allocVars, newVars, ruleVars, reentryVars, traceVars, registryVars>>
exceptNew == <<engineVars, ctxVars, haltVars, buildupVars, frameVars, concVars, lookupVars, allocVars, exprVars, ruleVars, reentryVars, traceVars, registryVars>>
exceptRule == <<engineVars, ctxVars, haltVars, buildupVars, frameVars, concVars, lookupVars, allocVars, exprVars, newVars, reentryVars, traceVars, registryVars>>
exceptReentry == <<engineVars, ctxVars, haltVars, buildupVars, frameVars, concVars, lookupVars, allocVars, exprVars, newVars, ruleVars, traceVars, registryVars>>
exceptTrace == <<engineVars, ctxVars, haltVars, buildupVars, frameVars, concVars, lookupVars, allocVars, exprVars, newVars, ruleVars, reentryVars, registryVars>>
exceptRegistry == <<engineVars, ctxVars, haltVars, buildupVars, frameVars, concVars, lookupVars, allocVars, exprVars, newVars, ruleVars, reentryVars, traceVars>>

-----------------------------------------------------------------------------
(* Bounds of the model *)

MaxRuleList == 3    \* longest rule list the model builds
MaxEvals == 2       \* Evaluate calls made on the one context
NumThreads == 2     \* goroutines sharing a context, a buildup or the engine
MaxCalls == 4       \* calls the goroutines make in all on contexts and buildups
MaxEngineCalls == 3 \* calls the goroutines make in all on the engine (SpecConc)
MaxRanges == 2      \* longest range list of a RangeLookup (SpecRange)
MaxTargets == 2     \* longest target list of an AllocationRule (SpecAlloc)
MaxInput == 3       \* longest input string made of every character (SpecParse)

-----------------------------------------------------------------------------
(* Modes, src/unnamed/part_004:386-394 *)

ModeFailFast == "fail_fast"
ModeCollectAll == "collect_all"
ModeContinueOnError == "continue_on_error"

Modes == {ModeFailFast, ModeCollectAll, ModeContinueOnError}

(* The rules the model draws from.  A formula rule's function is one of:   *)
(*   value  returns a constant                                             *)
(*   error  returns an error                                               *)
(*   get    reads the key src from the context (ValueNotFound if missing)  *)
(*   halt   calls evalCtx.Halt(rule id) and returns a constant             *)
RuleUniverse ==
    { [id |-> "a", type |-> "assignment", target |-> "x", fn |-> "value", src |-> "", value |-> 1],
      [id |-> "f", type |-> "formula", target |-> "y", fn |-> "error", src |-> "", value |-> 0],
      [id |-> "c", type |-> "formula", target |-> "y", fn |-> "get", src |-> "x", value |-> 0],
      [id |-> "h", type |-> "formula", target |-> "y", fn |-> "halt", src |-> "", value |-> 3] }

ExternalHalter == "ext"

-----------------------------------------------------------------------------
(* EvalContext, src/expr/expr_test.go:355-638 *)

EmptyMap == [k \in {} |-> 0]

NewEvalContext ==
    [ID |-> 1, values |-> EmptyMap, halted |-> FALSE, haltedBy |-> "",
     rulesEvaluated |-> 0, errCount |-> 0]

Has(c, key) == key \in DOMAIN c.values

\* (value, ok): <<v>> when the key is present, <<>> when it is not
Get(c, key) == IF key \in DOMAIN c.values THEN <<c.values[key]>> ELSE <<>>

Set(c, key, value) ==
    [c EXCEPT !.values = [k \in DOMAIN c.values \cup {key} |->
                            IF k = key THEN value ELSE c.values[k]]]

Halt(c, ruleID) == [c EXCEPT !.halted = TRUE, !.haltedBy = ruleID]

IsHalted(c) == c.halted

HaltedBy(c) == c.haltedBy

\* Mutant: a success is not counted
incRulesEvaluated_None(c) == c

incRulesEvaluated(c) == [c EXCEPT !.rulesEvaluated = @ + 1]

\* Mutant: a failure is not counted
incErrors_None(c) == c

incErrors(c) == [c EXCEPT !.errCount = @ + 1]

-----------------------------------------------------------------------------
(* Errors, src/unnamed/part_008:8-57.  An error value is a record; a nil   *)
(* error or a nil *Result is the empty sequence, a non-nil one a sequence  *)
(* of length one.                                                          *)

ErrEngineClosed == "ErrEngineClosed"
ErrTimeout == "ErrTimeout"
ErrNilContext == "ErrNilContext"
ErrValueNotFound == "ErrValueNotFound"
ErrIntentional == "intentional error"

Sentinel(kind) == [RuleID |-> "", RuleType |-> "", Phase |-> "", Err |-> kind]

NewRuleError(ruleID, ruleType, phase, err) ==
    [RuleID |-> ruleID, RuleType |-> ruleType, Phase |-> phase, Err |-> err]

\* errors.Is through RuleError.Unwrap and fmt.Errorf("%w: ...")
ErrorsIs(err, target) == err # <<>> /\ err[1].Err = target

-----------------------------------------------------------------------------
(* Rule evaluation, src/assignment.go:71-86 and src/formula.go:90-109.     *)
(* The outcome is the context the rule leaves and the error it returns.    *)

\* The rule's FormulaFunc: (result, err) and the context it leaves
FormulaFn(rule, c) ==
    CASE rule.fn = "value" -> [ec |-> c, res |-> <<rule.value>>, err |-> ""]
      [] rule.fn = "error" -> [ec |-> c, res |-> <<>>, err |-> ErrIntentional]
      [] rule.fn = "get" ->
            IF Get(c, rule.src) = <<>>
            THEN [ec |-> c, res |-> <<>>, err |-> ErrValueNotFound]
            ELSE [ec |-> c, res |-> Get(c, rule.src), err |-> ""]
      [] rule.fn = "halt" ->
            [ec |-> Halt(c, rule.id), res |-> <<rule.value>>, err |-> ""]

AssignmentEvaluate(rule, c) ==
    [ec |-> Set(c, rule.target, rule.value), err |-> <<>>]

FormulaEvaluate(rule, c) ==
    LET r == FormulaFn(rule, c) IN
    IF r.err # ""
    THEN [ec |-> r.ec, err |-> <<NewRuleError(rule.id, "formula", "evaluate", r.err)>>]
    ELSE [ec |-> Set(r.ec, rule.target, r.res[1]), err |-> <<>>]

RuleEvaluate(rule, c) ==
    IF rule.type = "assignment"
    THEN AssignmentEvaluate(rule, c)
    ELSE FormulaEvaluate(rule, c)

-----------------------------------------------------------------------------
(* Result, src/README.md:470-532 *)

newResult(c, errors) ==
    [ID |-> c.ID,
     Success |-> (Len(errors) = 0 /\ ~IsHalted(c)),
     RulesEvaluated |-> c.rulesEvaluated,
     RulesFailed |-> Len(errors),
     Errors |-> errors,
     HaltedBy |-> HaltedBy(c),
     Context |-> c.ID]

-----------------------------------------------------------------------------
(* Engine, src/cortex.go:83-336 *)

Configs == [Mode : Modes, ShortCircuit : BOOLEAN]

\* DefaultConfig, src/unnamed/part_004:428-436
DefaultConfig == [Mode |-> ModeFailFast, ShortCircuit |-> TRUE]

IdleRun ==
    [pc |-> "idle", rules |-> <<>>, i |-> 1, errors |-> <<>>,
     result |-> <<>>, err |-> <<>>, start |-> NewEvalContext]

\* Mutant: the rules are evaluated against the context as it was when the
\* call started
RuleView_Stale(st) == st.run.start

\* The *EvalContext the driver hands to rule.Evaluate (cortex.go:259, 304):
\* the caller's live context.
RuleView(st) == st.ec

\* evaluateRule, cortex.go:300-314 (tracing and metrics left out)
evaluateRule(rule, c) == RuleEvaluate(rule, c)

\* Mutant: fail-fast continues like the other modes
ReturnsOnError_Never(mode) == FALSE

\* Mutant: every mode returns at the first error
ReturnsOnError_Always(mode) == TRUE

\* What the driver does with a rule's error, by mode (cortex.go:274-280):
\* TRUE to return at once, FALSE to continue with the next rule.
ReturnsOnError(mode) ==
    CASE mode = ModeFailFast -> TRUE
      [] mode \in {ModeCollectAll, ModeContinueOnError} -> FALSE

\* Mutant: the loop never looks at ctx.Done()
DoneCheck_Never(st) == FALSE

\* The select on ctx.Done() at the top of the loop (cortex.go:245-251)
DoneCheck(st) == st.done

\* Mutant: the loop never looks at the halt flag
HaltCheck_Never(cfg, c) == FALSE

\* Mutant: the halt check does not look at config.ShortCircuit
HaltCheck_Always(cfg, c) == IsHalted(c)

\* Whether the driver stops at the halt check (cortex.go:254)
HaltCheck(cfg, c) == cfg.ShortCircuit /\ IsHalted(c)

\* Whether the rule error reaches Logger.Error (cortex.go:271)
LogsRuleError(mode) == TRUE

\* One iteration of the loop of Evaluate (cortex.go:243-284) on the state
\* st = [ec, run, done, logs, hist] under the configuration cfg.
EvalIterate(st, cfg) ==
    LET rule == st.run.rules[st.run.i] IN
    IF DoneCheck(st)
    THEN [st EXCEPT !.run.pc = "returned", !.run.result = <<>>,
                    !.run.err = <<Sentinel(ErrTimeout)>>]
    ELSE IF HaltCheck(cfg, st.ec)
    THEN [st EXCEPT !.run.pc = "break"]
    ELSE
      LET r == evaluateRule(rule, RuleView(st))
          h == Append(st.hist, [id |-> rule.id, seen |-> RuleView(st).values,
                                seenHalted |-> RuleView(st).halted,
                                left |-> r.ec.values, ok |-> r.err = <<>>])
      IN
      IF r.err # <<>>
      THEN
        LET c1 == incErrors(r.ec)
            ruleErr == IF r.err[1].Phase # ""
                       THEN r.err[1]
                       ELSE NewRuleError(rule.id, "", "evaluate", r.err[1].Err)
            errs == Append(st.run.errors, ruleErr)
            lg == IF LogsRuleError(cfg.Mode) THEN Append(st.logs, rule.id) ELSE st.logs
        IN
        IF ReturnsOnError(cfg.Mode)
        THEN [ec |-> c1, done |-> st.done, logs |-> lg, hist |-> h,
              run |-> [st.run EXCEPT !.pc = "returned", !.errors = errs,
                                     !.result = <<newResult(c1, errs)>>,
                                     !.err = r.err]]
        ELSE [ec |-> c1, done |-> st.done, logs |-> lg, hist |-> h,
              run |-> [st.run EXCEPT !.errors = errs, !.i = @ + 1]]
      ELSE [ec |-> incRulesEvaluated(r.ec), done |-> st.done, logs |-> st.logs,
            hist |-> h, run |-> [st.run EXCEPT !.i = @ + 1]]

\* The end of Evaluate after the loop (cortex.go:286-297)
EvalEnd(st) ==
    [st EXCEPT !.run.pc = "returned",
               !.run.result = <<newResult(st.ec, st.run.errors)>>,
               !.run.err = <<>>]

State == [ec |-> ec, run |-> run, done |-> ctxDone, logs |-> logs, hist |-> hist]

SetState(st) ==
    /\ ec' = st.ec
    /\ run' = st.run
    /\ ctxDone' = st.done
    /\ logs' = st.logs
    /\ hist' = st.hist

-----------------------------------------------------------------------------
(* Evaluate run to its end without interference, from a state inside the   *)
(* loop, under a given configuration (cortex.go:243-297)                   *)

RECURSIVE EvalRun(_, _)
EvalRun(st, cfg) ==
    IF st.run.pc = "loop" /\ st.run.i <= Len(st.run.rules)
    THEN EvalRun(EvalIterate(st, cfg), cfg)
    ELSE IF st.run.pc \in {"loop", "break"}
    THEN EvalEnd(st)
    ELSE st

-----------------------------------------------------------------------------
(* The EvalContext under its lock, src/expr/expr_test.go:364-638.  Each    *)
(* method takes e.mu, touches one of the context's maps and releases e.mu; *)
(* a call is two steps, Begin (the lock is taken, the access starts) and   *)
(* End (the access is done, the lock is released).                         *)

Threads == 1..NumThreads

NoThread == 0

Original == "orig"
TheClone == "clone"
CtxIds == {Original, TheClone}

TheKey == "key"
SetValues == {1, 2}
LookupName == "L"

\* The Go maps that hold lookup registries; a context holds a reference
Registries == {"reg1"}

\* sync.RWMutex
FreeMutex == [writer |-> NoThread, readers |-> {}]

\* Mutant: Lock does not wait for anyone
CanLock_Always(mu) == TRUE

\* Mutant: RLock does not wait for the writer
CanRLock_Always(mu) == TRUE

CanRLock(mu) == mu.writer = NoThread

CanLock(mu) == mu.writer = NoThread /\ mu.readers = {}

\* The calls the goroutines make
Calls ==
    [name : {"Set"}, ctx : CtxIds, val : SetValues]
    \cup [name : {"Get", "RegisterLookup", "Lookup"}, ctx : CtxIds, val : {0}]
    \cup [name : {"Clone"}, ctx : {Original}, val : {0}]

NoCall == [name |-> "", ctx |-> Original, val |-> 0]

\* e.mu.Lock() for Set (419-423) and RegisterLookup (512-516); e.mu.RLock()
\* for Get (396-401), Lookup (519-522) and Clone (617-619)
TakesWriteLock(call) == call.name \in {"Set", "RegisterLookup"}

\* The map a call touches: the context's own values map, or the registry
\* its lookups field points to.  Clone reads the values (and metadata) of
\* the original and copies the lookups reference, not the registry.
MapOf(call) ==
    IF call.name \in {"RegisterLookup", "Lookup"}
    THEN <<"lookups", cx[call.ctx].lookups>>
    ELSE <<"values", call.ctx>>

WritesMap(call) == call.name \in {"Set", "RegisterLookup"}

InCall(t) == th[t].pc = "locked"

\* Two calls in progress touch the same map and one of them writes it
Overlap(t, u) ==
    /\ t # u
    /\ InCall(t) /\ InCall(u)
    /\ MapOf(th[t].call) = MapOf(th[u].call)
    /\ WritesMap(th[t].call) \/ WritesMap(th[u].call)

Raced(t) == \E u \in Threads : Overlap(t, u)

\* Clone, expr_test.go:616-638: own copies of the values, the same registry
CloneOf(c) ==
    [exists |-> TRUE, mu |-> FreeMutex, values |-> c.values, lookups |-> c.lookups]

NoContext ==
    [exists |-> FALSE, mu |-> FreeMutex, values |-> EmptyMap, lookups |-> "reg1"]

CtxInit ==
    /\ cx = [c \in CtxIds |-> IF c = Original
                              THEN [NoContext EXCEPT !.exists = TRUE]
                              ELSE NoContext]
    /\ heap = [r \in Registries |-> {}]
    /\ th = [t \in Threads |-> [pc |-> "idle", call |-> NoCall,
                                ret |-> <<>>, raced |-> FALSE, afterSet |-> FALSE]]
    /\ obs = [calls |-> 0, written |-> {}, setDone |-> FALSE, getDone |-> FALSE,
              getFound |-> FALSE, fatal |-> FALSE]

\* The goroutine t takes the lock of the call's context and starts its access
Begin(t, call) ==
    /\ ~obs.fatal
    /\ th[t].pc = "idle"
    /\ obs.calls < MaxCalls
    /\ cx[call.ctx].exists
    /\ call.name = "Clone" =>
           (~cx[TheClone].exists /\ \A u \in Threads : th[u].call.name # "Clone")
    /\ IF TakesWriteLock(call)
       THEN /\ CanLock(cx[call.ctx].mu)
            /\ cx' = [cx EXCEPT ![call.ctx].mu.writer = t]
       ELSE /\ CanRLock(cx[call.ctx].mu)
            /\ cx' = [cx EXCEPT ![call.ctx].mu.readers = @ \cup {t}]
    /\ th' = [th EXCEPT ![t] = [pc |-> "locked", call |-> call,
                                ret |-> <<>>, raced |-> FALSE,
                                afterSet |-> (call.ctx = Original /\ obs.setDone)]]
    /\ obs' = [obs EXCEPT !.calls = @ + 1,
                          !.written = IF call.name = "Set" THEN @ \cup {call.val} ELSE @]
    /\ UNCHANGED <<heap, exceptCtx>>

Unlock(c, t) ==
    [c EXCEPT !.mu = [writer |-> IF @.writer = t THEN NoThread ELSE @.writer,
                      readers |-> @.readers \ {t}]]

\* What a read that ran without a concurrent write of its map returns
ReadResult(call) ==
    CASE call.name = "Get" -> Get(cx[call.ctx], TheKey)
      [] call.name = "Lookup" ->
            IF LookupName \in heap[cx[call.ctx].lookups] THEN <<1>> ELSE <<>>
      [] OTHER -> <<>>

\* The goroutine t finishes its access and releases the lock.  An access
\* that overlapped a write of the same map is a data race: the read may
\* return either outcome, or the runtime stops the program ("fatal error:
\* concurrent map read and map write").
End(t, fatal, racyRet) ==
    LET call == th[t].call
        raced == th[t].raced \/ Raced(t)
        ret == IF raced /\ ~WritesMap(call) /\ call.name # "Clone"
               THEN racyRet
               ELSE ReadResult(call)
    IN
    /\ ~obs.fatal
    /\ th[t].pc = "locked"
    /\ fatal => raced
    /\ (~raced \/ fatal \/ WritesMap(call) \/ call.name = "Clone") => racyRet = <<>>
    /\ (raced /\ call.name = "Get") =>
           (IF racyRet = <<>> THEN TRUE ELSE racyRet[1] \in obs.written)
    /\ th' = [u \in Threads |->
                IF u = t THEN [th[t] EXCEPT !.pc = "idle", !.ret = ret, !.raced = raced]
                ELSE IF Overlap(t, u) THEN [th[u] EXCEPT !.raced = TRUE]
                ELSE th[u]]
    /\ cx' = IF fatal THEN cx
             ELSE CASE call.name = "Set" ->
                         [cx EXCEPT ![call.ctx] = Unlock(Set(@, TheKey, call.val), t)]
                    [] call.name = "Clone" ->
                         [cx EXCEPT ![Original] = Unlock(@, t),
                                    ![TheClone] = CloneOf(cx[Original])]
                    [] OTHER -> [cx EXCEPT ![call.ctx] = Unlock(@, t)]
    /\ heap' = IF ~fatal /\ call.name = "RegisterLookup"
               THEN [heap EXCEPT ![cx[call.ctx].lookups] = @ \cup {LookupName}]
               ELSE heap
    /\ obs' = IF fatal THEN [obs EXCEPT !.fatal = TRUE]
              ELSE IF call.ctx = Original /\ call.name = "Set"
              THEN [obs EXCEPT !.setDone = TRUE]
              ELSE IF call.ctx = Original /\ call.name = "Get"
              THEN [obs EXCEPT !.getDone = TRUE, !.getFound = @ \/ ret # <<>>]
              ELSE obs
    /\ UNCHANGED exceptCtx

-----------------------------------------------------------------------------
(* The halt fields under the lock, src/expr/expr_test.go:569-589, and      *)
(* newResult, src/README.md:520-532, which reads them with two calls,      *)
(* IsHalted and then HaltedBy, each taking and releasing the read lock.    *)

\* The rule ids the goroutines pass to Halt
HaltIds == {"r1", "r2"}

\* How many rule errors newResult is given
ErrorCounts == {0, 1}

HaltInit ==
    /\ hc = [mu |-> FreeMutex, halted |-> FALSE, haltedBy |-> ""]
    /\ hth = [t \in Threads |-> [pc |-> "idle", id |-> ""]]
    /\ asm = [pc |-> "idle", nerr |-> 0, success |-> FALSE, result |-> <<>>]

\* Halt, e.mu.Lock() (expr_test.go:571)
HaltLock(t, id) ==
    /\ hth[t].pc = "idle"
    /\ CanLock(hc.mu)
    /\ hc' = [hc EXCEPT !.mu.writer = t]
    /\ hth' = [hth EXCEPT ![t] = [pc |-> "locked", id |-> id]]
    /\ UNCHANGED <<asm, exceptHalt>>

\* Halt, e.halted = true (expr_test.go:573)
HaltSetFlag(t) ==
    /\ hth[t].pc = "locked"
    /\ hc' = [hc EXCEPT !.halted = TRUE]
    /\ hth' = [hth EXCEPT ![t].pc = "flagged"]
    /\ UNCHANGED <<asm, exceptHalt>>

\* Halt, e.haltedBy = ruleID and the deferred Unlock (expr_test.go:572-575)
HaltSetBy(t) ==
    /\ hth[t].pc = "flagged"
    /\ hc' = [hc EXCEPT !.haltedBy = hth[t].id, !.mu.writer = NoThread]
    /\ hth' = [hth EXCEPT ![t].pc = "idle"]
    /\ UNCHANGED <<asm, exceptHalt>>

\* newResult up to the Success field (README.md:523): len(errors) == 0 &&
\* !evalCtx.IsHalted(); IsHalted is called only when there are no errors.
ResultSuccess(nerr) ==
    /\ asm.pc \in {"idle", "done"}
    /\ nerr = 0 => CanRLock(hc.mu)
    /\ asm' = [pc |-> "success", nerr |-> nerr,
               success |-> (nerr = 0 /\ ~IsHalted(hc)), result |-> <<>>]
    /\ UNCHANGED <<hc, hth, exceptHalt>>

\* newResult from the HaltedBy field on (README.md:528-530)
ResultHaltedBy ==
    /\ asm.pc = "success"
    /\ CanRLock(hc.mu)
    /\ asm' = [asm EXCEPT !.pc = "done",
                          !.result = <<[Success |-> asm.success,
                                        RulesFailed |-> asm.nerr,
                                        HaltedBy |-> HaltedBy(hc)]>>]
    /\ UNCHANGED <<hc, hth, exceptHalt>>

-----------------------------------------------------------------------------
(* Buildup, src/assignment.go:102-229, and EvalContext.GetOrCreateBuildup, *)
(* src/expr/expr_test.go:538-552.  float64 values are integers here; a     *)
(* result of Current is the fraction num/den.                              *)

BuildupSum == "sum"
BuildupMin == "min"
BuildupMax == "max"
BuildupAvg == "avg"
BuildupCount == "count"
BuildupProduct == "product"

BuildupOperations ==
    {BuildupSum, BuildupMin, BuildupMax, BuildupAvg, BuildupCount, BuildupProduct}

BuildupKeys == {"total"}
Initials == {0, 5}
AddValues == {2, 3}

\* &Buildup{Name: key, Operation: op, value: initial} (expr_test.go:545-549).
\* created and adds are history: the value given at creation or at the last
\* Reset, and the values of the Add calls completed since.
NewBuildupObject(key, op, initial) ==
    [Name |-> key, Operation |-> op, mu |-> NoThread, value |-> initial, count |-> 0,
     created |-> initial, adds |-> <<>>]

\* Mutant: b.mu.Lock() does not wait
BuildupCanLock_Always(b) == TRUE

\* b.mu.Lock() can proceed (sync.Mutex, assignment.go:168)
BuildupCanLock(b) == b.mu = NoThread

\* Mutant: sum keeps the last value only
SumStep_Replace(value, v) == v

\* case BuildupSum, BuildupAvg: b.value += value (assignment.go:182-183, 192-193)
SumStep(value, v) == value + v

\* Mutant: no Add is treated as the first
IsFirstAdd_Never(count) == FALSE

\* b.count == 1 (assignment.go:185, 189, 197)
IsFirstAdd(count) == count = 1

\* The switch of Add (assignment.go:181-203) on the incremented count
AddValueOf(op, count, value, v) ==
    CASE op = BuildupSum -> SumStep(value, v)
      [] op = BuildupMin -> IF IsFirstAdd(count) \/ v < value THEN v ELSE value
      [] op = BuildupMax -> IF IsFirstAdd(count) \/ v > value THEN v ELSE value
      [] op = BuildupAvg -> SumStep(value, v)
      [] op = BuildupCount -> count
      [] op = BuildupProduct -> IF IsFirstAdd(count) THEN v ELSE value * v

\* Current (assignment.go:206-215) as the fraction it returns
CurrentOf(b) ==
    IF b.Operation = BuildupAvg /\ b.count > 0
    THEN [num |-> b.value, den |-> b.count]
    ELSE [num |-> b.value, den |-> 1]

NoBuildupCall == [name |-> "", key |-> "", op |-> "", b |-> 0, val |-> 0, cnt |-> 0]

BuildupInit ==
    /\ bm = [mu |-> FreeMutex, buildups |-> [k \in {} |-> 0]]
    /\ bh = <<>>
    /\ bth = [t \in Threads |-> [pc |-> "idle", call |-> NoBuildupCall,
                                 ret |-> <<>>, hit |-> FALSE, differs |-> FALSE, torn |-> FALSE]]
    /\ bcalls = 0

BuildupIds == 1..Len(bh)

\* The operation or the initial value of the call is not that of the buildup
ArgsDiffer(call, b) == call.op # b.Operation \/ call.val # b.value

\* GetOrCreateBuildup, e.mu.Lock() (expr_test.go:540)
GetOrCreateLock(t, key, op, initial) ==
    /\ bth[t].pc = "idle"
    /\ bcalls < MaxCalls
    /\ CanLock(bm.mu)
    /\ bm' = [bm EXCEPT !.mu.writer = t]
    /\ bth' = [bth EXCEPT ![t] = [pc |-> "checking",
                                  call |-> [name |-> "GetOrCreateBuildup", key |-> key,
                                            op |-> op, b |-> 0, val |-> initial, cnt |-> 0],
                                  ret |-> <<>>, hit |-> FALSE, differs |-> FALSE, torn |-> FALSE]]
    /\ bcalls' = bcalls + 1
    /\ UNCHANGED <<bh, exceptBuildup>>

\* GetOrCreateBuildup, the check (expr_test.go:542-544): on a hit the
\* existing buildup is returned and the deferred Unlock runs
GetOrCreateCheck(t) ==
    LET key == bth[t].call.key IN
    /\ bth[t].pc = "checking"
    /\ IF key \in DOMAIN bm.buildups
       THEN /\ bth' = [bth EXCEPT ![t].pc = "idle", ![t].ret = <<bm.buildups[key]>>,
                                  ![t].hit = TRUE,
                                  ![t].differs = ArgsDiffer(bth[t].call, bh[bm.buildups[key]]),
                                  ![t].call.op = "", ![t].call.val = 0]
            /\ bm' = [bm EXCEPT !.mu.writer = NoThread]
       ELSE /\ bth' = [bth EXCEPT ![t].pc = "inserting"]
            /\ bm' = bm
    /\ UNCHANGED <<bh, bcalls, exceptBuildup>>

\* GetOrCreateBuildup, the insert (expr_test.go:545-551) and the deferred Unlock
GetOrCreateInsert(t) ==
    LET call == bth[t].call
        b == Len(bh) + 1
    IN
    /\ bth[t].pc = "inserting"
    /\ bh' = Append(bh, NewBuildupObject(call.key, call.op, call.val))
    /\ bm' = [mu |-> [bm.mu EXCEPT !.writer = NoThread],
              buildups |-> [k \in DOMAIN bm.buildups \cup {call.key} |->
                              IF k = call.key THEN b ELSE bm.buildups[k]]]
    /\ bth' = [bth EXCEPT ![t].pc = "idle", ![t].ret = <<b>>,
                          ![t].call.op = "", ![t].call.val = 0]
    /\ UNCHANGED <<bcalls, exceptBuildup>>

\* Add, b.mu.Lock() (assignment.go:175-176) and the load of b.count++
AddLock(t, b, v) ==
    /\ bth[t].pc = "idle"
    /\ bcalls < MaxCalls
    /\ b \in BuildupIds
    /\ BuildupCanLock(bh[b])
    /\ bh' = [bh EXCEPT ![b].mu = t]
    /\ bth' = [bth EXCEPT ![t] = [pc |-> "adding",
                                  call |-> [name |-> "Add", key |-> "", op |-> "",
                                            b |-> b, val |-> v, cnt |-> bh[b].count],
                                  ret |-> <<>>, hit |-> FALSE, differs |-> FALSE, torn |-> FALSE]]
    /\ bcalls' = bcalls + 1
    /\ UNCHANGED <<bm, exceptBuildup>>

\* Add, the store of b.count++ (assignment.go:179)
AddCount(t) ==
    LET b == bth[t].call.b IN
    /\ bth[t].pc = "adding"
    /\ bh' = [bh EXCEPT ![b].count = bth[t].call.cnt + 1]
    /\ bth' = [bth EXCEPT ![t].pc = "counted"]
    /\ UNCHANGED <<bm, bcalls, exceptBuildup>>

\* Add, the switch (assignment.go:181-203) and the deferred Unlock
AddValue(t) ==
    LET b == bth[t].call.b
        v == bth[t].call.val
    IN
    /\ bth[t].pc = "counted"
    /\ bh' = [bh EXCEPT ![b].value = AddValueOf(bh[b].Operation, bh[b].count, @, v),
                        ![b].adds = Append(@, v),
                        ![b].mu = NoThread]
    /\ bth' = [bth EXCEPT ![t].pc = "idle", ![t].call.val = 0, ![t].call.b = 0, ![t].call.cnt = 0]
    /\ UNCHANGED <<bm, bcalls, exceptBuildup>>

\* An Add on b has incremented the count and not yet updated the value
MidAdd(b) == \E u \in Threads : bth[u].pc = "counted" /\ bth[u].call.b = b

\* Current (assignment.go:206-215) and Count (assignment.go:218-222): the
\* read of value and count under b.mu.  torn records whether the read fell
\* between the two writes of an Add.
Read(t, name, b) ==
    /\ bth[t].pc = "idle"
    /\ bcalls < MaxCalls
    /\ b \in BuildupIds
    /\ BuildupCanLock(bh[b])
    /\ bth' = [bth EXCEPT ![t] = [pc |-> "idle",
                                  call |-> [name |-> name, key |-> "", op |-> "",
                                            b |-> 0, val |-> 0, cnt |-> 0],
                                  ret |-> <<>>, hit |-> FALSE, differs |-> FALSE,
                                  torn |-> MidAdd(b)]]
    /\ bcalls' = bcalls + 1
    /\ UNCHANGED <<bm, bh, exceptBuildup>>

\* Reset (assignment.go:225-230)
Reset(t, b, initial) ==
    /\ bth[t].pc = "idle"
    /\ bcalls < MaxCalls
    /\ b \in BuildupIds
    /\ BuildupCanLock(bh[b])
    /\ bh' = [bh EXCEPT ![b].value = initial, ![b].count = 0,
                        ![b].created = initial, ![b].adds = <<>>]
    /\ bth' = [bth EXCEPT ![t] = [pc |-> "idle",
                                  call |-> [name |-> "Reset", key |-> "", op |-> "",
                                            b |-> 0, val |-> 0, cnt |-> 0],
                                  ret |-> <<>>, hit |-> FALSE, differs |-> FALSE, torn |-> FALSE]]
    /\ bcalls' = bcalls + 1
    /\ UNCHANGED <<bm, exceptBuildup>>

-----------------------------------------------------------------------------
(* The maps of the EvalContext as objects, src/expr/expr_test.go:366-393,  *)
(* 419-465, 511-516, 554-559, 616-638, 704-708.  A context holds           *)
(* references to its maps; Values and Clone make new maps or hand out the  *)
(* references they hold.                                                   *)

FrameKeys == {"x"}
FrameValues == {1, 2}
MetadataKeys == {"env"}
MetadataValues == {"test"}

\* time.Now().UnixNano() as generateID may read it
Nanos == {1, 2}

\* The maps that can exist: those of the two contexts and the one the
\* caller of Values() holds
MapRefs == {"orig.values", "orig.metadata", "orig.lookups",
            "clone.values", "clone.metadata", "snapshot"}

NoRef == ""

\* generateID (expr_test.go:706-708): eval-<nanoseconds>-<idCounter.Add(1)>
generateID(nano, counter) == [nano |-> nano, n |-> counter + 1]

NoFrameContext ==
    [exists |-> FALSE, ID |-> [nano |-> 0, n |-> 0],
     values |-> NoRef, metadata |-> NoRef, lookups |-> NoRef, buildups |-> {},
     halted |-> FALSE, haltedBy |-> "", rulesEvaluated |-> 0, errCount |-> 0]

\* NewEvalContext (expr_test.go:384-393)
NewFrameContext(nano) ==
    [NoFrameContext EXCEPT !.exists = TRUE, !.ID = generateID(nano, 0),
                           !.values = "orig.values", !.metadata = "orig.metadata",
                           !.lookups = "orig.lookups"]

\* The context after an Evaluate call whose rules set x, created the
\* buildup total, halted the context and failed once
UsedFrameContext(nano) ==
    [NewFrameContext(nano) EXCEPT !.buildups = {"total"}, !.halted = TRUE,
                                  !.haltedBy = "r1", !.rulesEvaluated = 1,
                                  !.errCount = 1]

MapPut(m, k, v) == [j \in DOMAIN m \cup {k} |-> IF j = k THEN v ELSE m[j]]

MapDelete(m, k) == [j \in DOMAIN m \ {k} |-> m[j]]

NoFrameCall == [op |-> "", ctx |-> Original, n |-> 0]

\* The original context, fresh or used, created at one of the given times
FrameInit(nanos, useds) ==
    /\ \E nano \in nanos, used \in useds :
          /\ fc = [c \in CtxIds |->
                     IF c = TheClone THEN NoFrameContext
                     ELSE IF used THEN UsedFrameContext(nano)
                     ELSE NewFrameContext(nano)]
          /\ fheap = [r \in MapRefs |->
                        IF used /\ r = "orig.values" THEN MapPut(EmptyMap, "x", 1)
                        ELSE EmptyMap]
    /\ fsnap = NoRef
    /\ fid = 1
    /\ flast = NoFrameCall

ValuesOf(c) == fheap[fc[c].values]

MetadataOf(c) == fheap[fc[c].metadata]

LookupsOf(c) == fheap[fc[c].lookups]

\* Every call counts against the budget and records itself
FrameCall(op, c) ==
    /\ flast.n < MaxCalls
    /\ flast' = [op |-> op, ctx |-> c, n |-> flast.n + 1]

\* Set (expr_test.go:419-423)
CtxSet(c, k, v) ==
    /\ fc[c].exists
    /\ FrameCall("Set", c)
    /\ fheap' = [fheap EXCEPT ![fc[c].values] = MapPut(@, k, v)]
    /\ UNCHANGED <<fc, fsnap, fid, exceptFrame>>

\* Delete (expr_test.go:431-435)
CtxDelete(c, k) ==
    /\ fc[c].exists
    /\ FrameCall("Delete", c)
    /\ fheap' = [fheap EXCEPT ![fc[c].values] = MapDelete(@, k)]
    /\ UNCHANGED <<fc, fsnap, fid, exceptFrame>>

\* SetMetadata (expr_test.go:555-559)
CtxSetMetadata(c, k, v) ==
    /\ fc[c].exists
    /\ FrameCall("SetMetadata", c)
    /\ fheap' = [fheap EXCEPT ![fc[c].metadata] = MapPut(@, k, v)]
    /\ UNCHANGED <<fc, fsnap, fid, exceptFrame>>

\* RegisterLookup (expr_test.go:512-516)
CtxRegisterLookup(c) ==
    /\ fc[c].exists
    /\ FrameCall("RegisterLookup", c)
    /\ fheap' = [fheap EXCEPT ![fc[c].lookups] = MapPut(@, LookupName, 1)]
    /\ UNCHANGED <<fc, fsnap, fid, exceptFrame>>

\* Mutant: Values hands out the context's own map
SnapshotRef_Live(c) == fc[c].values

\* The map Values returns: cp := make(map[string]any, ...) (expr_test.go:460)
SnapshotRef(c) == "snapshot"

\* Values (expr_test.go:457-465): the entries are copied into the map returned
CtxValues(c) ==
    /\ fc[c].exists
    /\ FrameCall("Values", c)
    /\ fsnap' = SnapshotRef(c)
    /\ fheap' = [fheap EXCEPT ![SnapshotRef(c)] = ValuesOf(c)]
    /\ UNCHANGED <<fc, fid, exceptFrame>>

\* The caller adds or overwrites an entry in the map Values returned
CallerPut(k, v) ==
    /\ fsnap # NoRef
    /\ FrameCall("CallerPut", flast.ctx)
    /\ fheap' = [fheap EXCEPT ![fsnap] = MapPut(@, k, v)]
    /\ UNCHANGED <<fc, fsnap, fid, exceptFrame>>

\* The caller deletes an entry from the map Values returned
CallerDelete(k) ==
    /\ fsnap # NoRef
    /\ FrameCall("CallerDelete", flast.ctx)
    /\ fheap' = [fheap EXCEPT ![fsnap] = MapDelete(@, k)]
    /\ UNCHANGED <<fc, fsnap, fid, exceptFrame>>

\* Mutant: the clone holds the original's values map
CloneValuesRef_Shared(c) == fc[c].values

\* values: make(map[string]any, len(e.values)) (expr_test.go:623)
CloneValuesRef(c) == "clone.values"

\* Clone (expr_test.go:617-638); the model clones the original, once
CtxClone(nano) ==
    /\ fc[Original].exists
    /\ ~fc[TheClone].exists
    /\ FrameCall("Clone", Original)
    /\ fc' = [fc EXCEPT ![TheClone] =
                [NoFrameContext EXCEPT !.exists = TRUE,
                                       !.ID = generateID(nano, fid),
                                       !.values = CloneValuesRef(Original),
                                       !.metadata = "clone.metadata",
                                       !.lookups = fc[Original].lookups]]
    /\ fid' = fid + 1
    /\ fheap' = [r \in MapRefs |->
                   IF r = CloneValuesRef(Original) THEN ValuesOf(Original)
                   ELSE IF r = "clone.metadata" THEN MetadataOf(Original)
                   ELSE fheap[r]]
    /\ UNCHANGED <<fsnap, exceptFrame>>

\* What an Evaluate call may leave in a context: a buildup, the halt state
\* and the counters (expr_test.go:539-552, 570-575, 592-599)
CtxUse(c) ==
    /\ fc[c].exists
    /\ ~fc[c].halted
    /\ FrameCall("Use", c)
    /\ fc' = [fc EXCEPT ![c].buildups = @ \cup {"total"}, ![c].halted = TRUE,
                        ![c].haltedBy = "r1", ![c].rulesEvaluated = @ + 1,
                        ![c].errCount = @ + 1]
    /\ UNCHANGED <<fheap, fsnap, fid, exceptFrame>>

-----------------------------------------------------------------------------
(* The engine under its lock, src/cortex.go:139-320.  The goroutine t      *)
(* evaluates the eval context t; the eval context 2 is either a context of *)
(* its own or a Clone of the eval context 1, whose lookup registry it then *)
(* shares (expr_test.go:625).                                              *)

ErrDuplicateRule == "ErrDuplicateRule"
ErrDuplicateLookup == "ErrDuplicateLookup"
ErrInvalidRule == "ErrInvalidRule"

\* The rules the goroutines add: two of them have the same id
ConcRules ==
    {r \in RuleUniverse : r.id \in {"a", "c"}}
    \cup {[id |-> "a", type |-> "assignment", target |-> "x", fn |-> "value",
           src |-> "", value |-> 2]}

\* Config.MaxRules (part_004:423-424): 0 is unlimited
MaxRulesValues == {0, 1}

NoRule == [id |-> "", type |-> "", target |-> "", fn |-> "", src |-> "", value |-> 0]

NoConcCall == [name |-> "", rule |-> NoRule, nilCtx |-> FALSE]

IdleEval == [ec |-> NewEvalContext, run |-> IdleRun, done |-> FALSE,
             logs |-> <<>>, hist |-> <<>>]

\* The registry the eval context of goroutine t points to
RegistryOf(t) == IF t = 2 /\ gobs.cloned THEN 1 ELSE t

ConcInit(maxRules, cloned) ==
    /\ \E m \in maxRules :
          eng = [rules |-> <<>>, ruleIDs |-> {}, lookups |-> {}, closed |-> FALSE,
                 mu |-> FreeMutex, MaxRules |-> m]
    /\ gth = [t \in Threads |-> [pc |-> "idle", call |-> NoConcCall, ret |-> <<>>, raced |-> FALSE, asAlone |-> TRUE]]
    /\ gev = [t \in Threads |-> [st |-> IdleEval, alone |-> IdleEval]]
    /\ greg = [t \in Threads |-> {}]
    /\ \E c \in cloned :
          gobs = [calls |-> 0, cloned |-> c, fatal |-> FALSE, atClose |-> <<>>]

\* A goroutine starts a call: the budget, and what it finds in e.closed
ConcBegin(t, call) ==
    /\ ~gobs.fatal
    /\ gth[t].pc = "idle"
    /\ gobs.calls < MaxEngineCalls
    /\ gobs' = [gobs EXCEPT !.calls = @ + 1]

\* The goroutine is back from its call with the error err
ConcReturn(t, err) ==
    [gth[t] EXCEPT !.pc = "idle", !.ret = err, !.call.rule = NoRule]

\* AddRule, the closed check (cortex.go:141-143)
ConcAddRule(t, rule) ==
    LET call == [name |-> "AddRule", rule |-> rule, nilCtx |-> FALSE] IN
    /\ ConcBegin(t, call)
    /\ gth' = [gth EXCEPT ![t] =
                 IF eng.closed
                 THEN [pc |-> "idle", call |-> [call EXCEPT !.rule = NoRule],
                       ret |-> <<ErrEngineClosed>>,
                       raced |-> FALSE, asAlone |-> TRUE]
                 ELSE [pc |-> "addWait", call |-> call, ret |-> <<>>,
                       raced |-> FALSE, asAlone |-> TRUE]]
    /\ UNCHANGED <<eng, gev, greg, exceptConc>>

\* AddRule, e.mu.Lock() and the two checks (cortex.go:145-154); a failed
\* check returns through the deferred Unlock
ConcAddRuleCheck(t) ==
    LET rule == gth[t].call.rule IN
    /\ ~gobs.fatal
    /\ gth[t].pc = "addWait"
    /\ CanLock(eng.mu)
    /\ IF rule.id \in eng.ruleIDs
       THEN /\ gth' = [gth EXCEPT ![t] = ConcReturn(t, <<ErrDuplicateRule>>)]
            /\ eng' = eng
       ELSE IF eng.MaxRules > 0 /\ Len(eng.rules) >= eng.MaxRules
       THEN /\ gth' = [gth EXCEPT ![t] = ConcReturn(t, <<ErrInvalidRule>>)]
            /\ eng' = eng
       ELSE /\ gth' = [gth EXCEPT ![t].pc = "addAppend"]
            /\ eng' = [eng EXCEPT !.mu.writer = t]
    /\ UNCHANGED <<gev, greg, gobs, exceptConc>>

\* AddRule, the append (cortex.go:156-158) and the deferred Unlock
ConcAddRuleAppend(t) ==
    LET rule == gth[t].call.rule IN
    /\ ~gobs.fatal
    /\ gth[t].pc = "addAppend"
    /\ eng' = [eng EXCEPT !.rules = Append(@, rule), !.ruleIDs = @ \cup {rule.id},
                          !.mu.writer = NoThread]
    /\ gth' = [gth EXCEPT ![t] = ConcReturn(t, <<>>)]
    /\ UNCHANGED <<gev, greg, gobs, exceptConc>>

\* RegisterLookup, the closed check (cortex.go:173-175)
ConcRegisterLookup(t) ==
    LET call == [name |-> "RegisterLookup", rule |-> NoRule, nilCtx |-> FALSE] IN
    /\ ConcBegin(t, call)
    /\ gth' = [gth EXCEPT ![t] =
                 IF eng.closed
                 THEN [pc |-> "idle", call |-> call, ret |-> <<ErrEngineClosed>>,
                       raced |-> FALSE, asAlone |-> TRUE]
                 ELSE [pc |-> "regWait", call |-> call, ret |-> <<>>,
                       raced |-> FALSE, asAlone |-> TRUE]]
    /\ UNCHANGED <<eng, gev, greg, exceptConc>>

\* RegisterLookup under the lock (cortex.go:177-185)
ConcRegisterLookupLocked(t) ==
    /\ ~gobs.fatal
    /\ gth[t].pc = "regWait"
    /\ CanLock(eng.mu)
    /\ IF LookupName \in eng.lookups
       THEN /\ gth' = [gth EXCEPT ![t] = ConcReturn(t, <<ErrDuplicateLookup>>)]
            /\ eng' = eng
       ELSE /\ gth' = [gth EXCEPT ![t] = ConcReturn(t, <<>>)]
            /\ eng' = [eng EXCEPT !.lookups = @ \cup {LookupName}]
    /\ UNCHANGED <<gev, greg, gobs, exceptConc>>

\* Close (cortex.go:317-320); atClose keeps the rule list and the registry
\* as they were when the first Close returned
ConcClose(t) ==
    LET call == [name |-> "Close", rule |-> NoRule, nilCtx |-> FALSE] IN
    /\ ~gobs.fatal
    /\ gth[t].pc = "idle"
    /\ gobs.calls < MaxEngineCalls
    /\ ~eng.closed
    /\ eng' = [eng EXCEPT !.closed = TRUE]
    /\ gobs' = [gobs EXCEPT !.calls = @ + 1,
                            !.atClose = <<[rules |-> eng.rules, lookups |-> eng.lookups]>>]
    /\ gth' = [gth EXCEPT ![t] = [pc |-> "idle", call |-> call, ret |-> <<>>,
                                  raced |-> FALSE, asAlone |-> TRUE]]
    /\ UNCHANGED <<gev, greg, exceptConc>>

\* Evaluate, the closed and nil checks (cortex.go:214-220)
ConcEvaluate(t, nilCtx) ==
    LET call == [name |-> "Evaluate", rule |-> NoRule, nilCtx |-> nilCtx] IN
    /\ ConcBegin(t, call)
    /\ gth' = [gth EXCEPT ![t] =
                 IF eng.closed
                 THEN [pc |-> "idle", call |-> call, ret |-> <<ErrEngineClosed>>,
                       raced |-> FALSE, asAlone |-> TRUE]
                 ELSE IF nilCtx
                 THEN [pc |-> "idle", call |-> call, ret |-> <<ErrNilContext>>,
                       raced |-> FALSE, asAlone |-> TRUE]
                 ELSE [pc |-> "evalWait", call |-> call, ret |-> <<>>,
                       raced |-> FALSE, asAlone |-> TRUE]]
    /\ gev' = [gev EXCEPT ![t].st.run = IdleRun, ![t].st.hist = <<>>,
                          ![t].st.logs = <<>>, ![t].alone = IdleEval]
    /\ UNCHANGED <<eng, greg, exceptConc>>

\* Evaluate, e.mu.RLock() and rules := e.rules (cortex.go:234-235); with no
\* lookups to copy, e.mu.RUnlock() follows at once (cortex.go:236-239).
\* alone keeps what this call returns when nothing else runs: the loop run
\* to its end on the call's context and snapshot.
ConcEvalSnapshot(t) ==
    LET st == [gev[t].st EXCEPT !.run = [IdleRun EXCEPT !.pc = "loop",
                                                         !.rules = eng.rules,
                                                         !.start = gev[t].st.ec]]
    IN
    /\ ~gobs.fatal
    /\ gth[t].pc = "evalWait"
    /\ CanRLock(eng.mu)
    /\ eng' = [eng EXCEPT !.mu.readers =
                            IF eng.lookups = {} THEN @ ELSE @ \cup {t}]
    /\ gev' = [gev EXCEPT ![t] = [st |-> st, alone |-> EvalRun(st, DefaultConfig)]]
    /\ gth' = [gth EXCEPT ![t].pc = IF eng.lookups = {} THEN "loop" ELSE "copying"]
    /\ UNCHANGED <<greg, gobs, exceptConc>>

\* Two goroutines are copying lookups into the same registry
CopyOverlap(t, u) ==
    /\ t # u
    /\ gth[t].pc = "copying" /\ gth[u].pc = "copying"
    /\ eng.lookups # {}
    /\ RegistryOf(t) = RegistryOf(u)

\* Evaluate, the copy of the lookups into the eval context and
\* e.mu.RUnlock() (cortex.go:236-239).  evalCtx.RegisterLookup writes the
\* registry under the lock of the eval context; a write that overlaps
\* another write of the same registry is a data race, which the runtime may
\* stop with "fatal error: concurrent map writes".
ConcEvalCopied(t, fatal) ==
    LET raced == gth[t].raced \/ \E u \in Threads : CopyOverlap(t, u) IN
    /\ ~gobs.fatal
    /\ gth[t].pc = "copying"
    /\ fatal => raced
    /\ gth' = [u \in Threads |->
                 IF u = t THEN [gth[t] EXCEPT !.pc = "loop", !.raced = raced]
                 ELSE IF CopyOverlap(t, u) THEN [gth[u] EXCEPT !.raced = TRUE]
                 ELSE gth[u]]
    /\ greg' = IF fatal THEN greg
               ELSE [greg EXCEPT ![RegistryOf(t)] = @ \cup eng.lookups]
    /\ eng' = [eng EXCEPT !.mu.readers = @ \ {t}]
    /\ gobs' = [gobs EXCEPT !.fatal = fatal]
    /\ UNCHANGED <<gev, exceptConc>>

\* Evaluate, one iteration of the loop (cortex.go:243-284)
ConcEvalIter(t) ==
    /\ ~gobs.fatal
    /\ gth[t].pc = "loop"
    /\ gev[t].st.run.pc = "loop"
    /\ gev[t].st.run.i <= Len(gev[t].st.run.rules)
    /\ gev' = [gev EXCEPT ![t].st = EvalIterate(@, DefaultConfig)]
    /\ UNCHANGED <<eng, gth, greg, gobs, exceptConc>>

\* Evaluate returns: from inside the loop (cortex.go:277), or after it
\* (cortex.go:286-297).  The caller keeps its eval context; asAlone records
\* whether the context and the Result are those of the call run alone.
ConcEvalReturn(t) ==
    LET st == gev[t].st
        end == IF st.run.pc = "returned" THEN st ELSE EvalEnd(st)
    IN
    /\ ~gobs.fatal
    /\ gth[t].pc = "loop"
    /\ \/ st.run.pc \in {"returned", "break"}
       \/ st.run.pc = "loop" /\ st.run.i > Len(st.run.rules)
    /\ gev' = [gev EXCEPT ![t] = [st |-> [IdleEval EXCEPT !.ec = end.ec],
                                  alone |-> IdleEval]]
    /\ gth' = [gth EXCEPT ![t] =
                 [ConcReturn(t, IF end.run.err = <<>> THEN <<>>
                                ELSE <<end.run.err[1].Err>>)
                    EXCEPT !.asAlone = (end = gev[t].alone)]]
    /\ UNCHANGED <<eng, greg, gobs, exceptConc>>

-----------------------------------------------------------------------------
(* Actions of the engine *)

\* Engine.AddRule, cortex.go:140-159
AddRule(rule) ==
    /\ Len(rules) < MaxRuleList
    /\ IF closed \/ rule.id \in ruleIDs
       THEN UNCHANGED <<rules, ruleIDs>>
       ELSE /\ rules' = Append(rules, rule)
            /\ ruleIDs' = ruleIDs \cup {rule.id}
    /\ UNCHANGED <<closed, config, ec, run, ctxDone, logs, hist, evals, exceptEngine>>

\* Engine.Close, cortex.go:317-320
Close ==
    /\ ~closed
    /\ closed' = TRUE
    /\ UNCHANGED <<rules, ruleIDs, config, ec, run, ctxDone, logs, hist, evals, exceptEngine>>

\* Engine.Evaluate up to the loop, cortex.go:213-241
EvalStart(nilCtx) ==
    /\ run.pc \in {"idle", "returned"}
    /\ evals < MaxEvals
    /\ IF closed
       THEN /\ run' = [IdleRun EXCEPT !.pc = "returned", !.err = <<Sentinel(ErrEngineClosed)>>]
            /\ UNCHANGED <<ctxDone, evals>>
       ELSE IF nilCtx
       THEN /\ run' = [IdleRun EXCEPT !.pc = "returned", !.err = <<Sentinel(ErrNilContext)>>]
            /\ UNCHANGED <<ctxDone, evals>>
       ELSE /\ run' = [IdleRun EXCEPT !.pc = "loop", !.rules = rules, !.start = ec]
            /\ ctxDone' = FALSE
            /\ evals' = evals + 1
    /\ logs' = <<>>
    /\ hist' = <<>>
    /\ UNCHANGED <<rules, ruleIDs, closed, config, ec, exceptEngine>>

\* One iteration of the loop, cortex.go:243-284
EvalIter ==
    /\ run.pc = "loop"
    /\ run.i <= Len(run.rules)
    /\ SetState(EvalIterate(State, config))
    /\ UNCHANGED <<rules, ruleIDs, closed, config, evals, exceptEngine>>

\* After the loop or the break, cortex.go:286-297
EvalFinish ==
    /\ \/ run.pc = "loop" /\ run.i > Len(run.rules)
       \/ run.pc = "break"
    /\ SetState(EvalEnd(State))
    /\ UNCHANGED <<rules, ruleIDs, closed, config, evals, exceptEngine>>

\* The cancellation source fires: the deadline of config.Timeout passes or
\* the caller cancels (cortex.go:222-227)
Cancel ==
    /\ run.pc \in {"loop", "break"}
    /\ ~ctxDone
    /\ ctxDone' = TRUE
    /\ UNCHANGED <<rules, ruleIDs, closed, config, ec, run, logs, hist, evals, exceptEngine>>

\* Another goroutine, or the caller between two calls, halts the context
\* (expr_test.go:569-575)
ExternalHalt ==
    /\ ec.haltedBy # ExternalHalter
    /\ ec' = Halt(ec, ExternalHalter)
    /\ UNCHANGED <<rules, ruleIDs, closed, config, run, ctxDone, logs, hist, evals, exceptEngine>>

-----------------------------------------------------------------------------
(* Values held in a context (any), with their Go type.  A number stands   *)
(* for itself in every numeric type.                                       *)

GoNumericTypes ==
    {"float64", "float32", "int", "int64", "int32", "int16", "int8",
     "uint", "uint64", "uint32", "uint16", "uint8"}

Val(t, n) == [t |-> t, n |-> n]

Nil == Val("nil", 0)

\* toFloat64 (expr_test.go:640-670): <<f>>, or <<>> for ErrTypeMismatch
toFloat64(v) == IF v.t \in GoNumericTypes THEN <<v.n>> ELSE <<>>

-----------------------------------------------------------------------------
(* Lookup tables and the lookup rule, src/lookup.go *)

ErrLookupNotFound == "ErrLookupNotFound"
ErrKeyNotFound == "ErrKeyNotFound"

\* math.Inf(1): above every key of the model
PosInf == 100

\* NewMapLookup("rates", map[float64]float64{10: 5}) (part_001:128-130)
RatesItems == [k \in {10} |-> 5]

\* MapLookup[float64, float64].Get (lookup.go:38-45): the key must have the
\* type K; a key that is not in the map gives the zero value and false
MapLookupGet(items, key) ==
    IF key.t # "float64" THEN [v |-> Nil, found |-> FALSE]
    ELSE IF key.n \in DOMAIN items
    THEN [v |-> Val("float64", items[key.n]), found |-> TRUE]
    ELSE [v |-> Val("float64", 0), found |-> FALSE]

\* Mutant: the upper end of a range belongs to it
InRange_Closed(k, r) == k >= r.Min /\ k <= r.Max

\* k >= r.Min && k < r.Max (lookup.go:78)
InRange(k, r) == k >= r.Min /\ k < r.Max

\* The loop of RangeLookup.Get from entry i on (lookup.go:77-82)
RECURSIVE RangeScan(_, _, _)
RangeScan(ranges, k, i) ==
    IF i > Len(ranges) THEN [v |-> Nil, found |-> FALSE]
    ELSE IF InRange(k, ranges[i])
    THEN [v |-> Val("float64", ranges[i].Value), found |-> TRUE]
    ELSE RangeScan(ranges, k, i + 1)

\* RangeLookup[float64].Get (lookup.go:72-83)
RangeLookupGet(ranges, key) ==
    IF toFloat64(key) = <<>> THEN [v |-> Nil, found |-> FALSE]
    ELSE RangeScan(ranges, toFloat64(key)[1], 1)

\* The brackets of TestRangeLookup (part_001:43-47), scaled down
TaxBrackets ==
    << [Min |-> 0, Max |-> 1, Value |-> 10],
       [Min |-> 1, Max |-> 2, Value |-> 22],
       [Min |-> 2, Max |-> PosInf, Value |-> 35] >>

RangeEntries == [Min : {0, 1, 2}, Max : {1, 2, PosInf}, Value : {1, 2}]

RECURSIVE ListsUpTo(_, _)
ListsUpTo(S, n) ==
    IF n = 0 THEN {<<>>}
    ELSE ListsUpTo(S, n - 1)
         \cup {Append(l, e) : l \in {q \in ListsUpTo(S, n - 1) : Len(q) = n - 1}, e \in S}

RangeLists == ListsUpTo(RangeEntries, MaxRanges)

RangeKeys ==
    {Val("float64", n) : n \in -1..3} \cup {Val("int", 1), Val("string", 0), Nil}

\* NewRangeLookup("brackets", ranges) (lookup.go:61-68); no Get made yet
RangeInit(lists) == rg \in [ranges : lists, key : {Nil}, res : {<<>>}]

\* lookup.Get(key) on the range lookup
RangeGet(key) ==
    /\ rg' = [rg EXCEPT !.key = key, !.res = <<RangeLookupGet(rg.ranges, key)>>]
    /\ UNCHANGED <<lk, exceptLookup>>

LookupTables == {"rates", "brackets"}

LookupCtxKeys == {"amount", "rate"}

\* What the caller sets in the context
LookupCtxValues ==
    {Val("float64", 10), Val("float64", 1), Val("int", 1), Val("string", 0), Nil}

\* LookupConfig as NewLookup accepts it (lookup.go:119-146)
LookupRules ==
    [id : {"get-rate"}, table : LookupTables, keySource : {"amount"},
     target : LookupCtxKeys, defaultVal : {Nil, Val("float64", 0)},
     required : BOOLEAN]

NoLookupEval == <<>>

\* NewEvalContext, with no value and no table
LookupInit == lk = [values |-> EmptyMap, lookups |-> {}, last |-> NoLookupEval]

\* lookup.Get(key) of the table registered under the name
TableGet(table, key) ==
    IF table = "rates" THEN MapLookupGet(RatesItems, key)
    ELSE RangeLookupGet(rg.ranges, key)

\* EvalContext.Lookup (expr_test.go:519-528): (value, found, err)
CtxLookup(lookups, table, key) ==
    IF table \notin lookups
    THEN [v |-> Nil, found |-> FALSE, err |-> <<ErrLookupNotFound>>]
    ELSE [v |-> TableGet(table, key).v, found |-> TableGet(table, key).found,
          err |-> <<>>]

\* Mutant: a missing key is never an error
MissIsError_Never(rule) == FALSE

\* if r.required (lookup.go:171)
MissIsError(rule) == rule.required

\* LookupRule.Evaluate (lookup.go:158-180): the values it leaves and the
\* error it returns
LookupRuleEvaluate(rule, values, lookups) ==
    IF rule.keySource \notin DOMAIN values
    THEN [values |-> values,
          err |-> <<NewRuleError(rule.id, "lookup", "evaluate", ErrValueNotFound)>>]
    ELSE
      LET key == values[rule.keySource]
          got == CtxLookup(lookups, rule.table, key)
      IN
      IF got.err # <<>>
      THEN [values |-> values,
            err |-> <<NewRuleError(rule.id, "lookup", "evaluate", got.err[1])>>]
      ELSE IF ~got.found /\ MissIsError(rule)
      THEN [values |-> values,
            err |-> <<NewRuleError(rule.id, "lookup", "evaluate", ErrKeyNotFound)>>]
      ELSE [values |-> MapPut(values, rule.target,
                              IF got.found THEN got.v ELSE rule.defaultVal),
            err |-> <<>>]

\* evalCtx.Set(key, value) by the caller (expr_test.go:419-423)
LookupCtxSet(key, value) ==
    /\ lk' = [lk EXCEPT !.values = MapPut(@, key, value), !.last = NoLookupEval]
    /\ UNCHANGED <<rg, exceptLookup>>

\* evalCtx.RegisterLookup(table) by the caller (expr_test.go:512-516)
LookupCtxRegister(table) ==
    /\ table \notin lk.lookups
    /\ lk' = [lk EXCEPT !.lookups = @ \cup {table}, !.last = NoLookupEval]
    /\ UNCHANGED <<rg, exceptLookup>>

\* rule.Evaluate(ctx, evalCtx); last keeps the rule, the values before the
\* call and the error returned
LookupEvaluate(rule) ==
    LET r == LookupRuleEvaluate(rule, lk.values, lk.lookups) IN
    /\ lk' = [lk EXCEPT !.values = r.values,
                        !.last = <<[rule |-> rule, before |-> lk.values, err |-> r.err]>>]
    /\ UNCHANGED <<rg, exceptLookup>>

-----------------------------------------------------------------------------
(* float64 arithmetic of the allocation rule.  A finite value is a whole   *)
(* number of units of 1/Unit and is computed exactly; a result above       *)
(* FloatMax in magnitude overflows to an infinity, as math.MaxFloat64      *)
(* does; infinities and NaN follow IEEE 754.                               *)

Unit == 1000

\* math.MaxFloat64, in units, scaled down
FloatMax == 2000 * Unit

Fin(n) == [k |-> "fin", n |-> n]

\* +Inf (s = 1) and -Inf (s = -1)
Inf(s) == [k |-> "inf", n |-> s]

NaN == [k |-> "nan", n |-> 0]

Sign(n) == IF n < 0 THEN -1 ELSE 1

Abs(n) == IF n < 0 THEN -n ELSE n

Overflow(n) == IF Abs(n) > FloatMax THEN Inf(Sign(n)) ELSE Fin(n)

\* x + y
FAdd(x, y) ==
    IF x.k = "nan" \/ y.k = "nan" THEN NaN
    ELSE IF x.k = "inf" /\ y.k = "inf" THEN (IF x.n = y.n THEN x ELSE NaN)
    ELSE IF x.k = "inf" THEN x
    ELSE IF y.k = "inf" THEN y
    ELSE Overflow(x.n + y.n)

FNeg(x) == IF x.k = "nan" THEN NaN ELSE [x EXCEPT !.n = -x.n]

\* x - y
FSub(x, y) == FAdd(x, FNeg(y))

\* x == y: NaN equals nothing
FEq(x, y) == x.k # "nan" /\ y.k # "nan" /\ x = y

Pow10(p) == IF p = 0 THEN 1 ELSE IF p = 1 THEN 10 ELSE IF p = 2 THEN 100 ELSE 1000

\* math.Round of num/den, den > 0: half away from zero
RoundHalfAway(num, den) == Sign(num) * ((2 * Abs(num) + den) \div (2 * den))

-----------------------------------------------------------------------------
(* The allocation rule, src/buildup_test.go:200-467 (package cortex) *)

StrategyPercentage == "percentage"
StrategyFixed == "fixed"
StrategyWeighted == "weighted"
StrategyEqual == "equal"
StrategyRatio == "ratio"
AllocationStrategies ==
    {StrategyPercentage, StrategyFixed, StrategyWeighted, StrategyEqual, StrategyRatio}

ErrTypeMismatch == "ErrTypeMismatch"

\* AllocationTarget.Amount: whole numbers
Amounts == {-30, 0, 1, 2, 30, 70, 100, 130}

\* AllocationTarget.Key of the i-th target
TargetKey(i) == <<"a", "b", "c", "d">>[i]

RemainderKey == "leftover"

RECURSIVE SumAmounts(_, _)
SumAmounts(targets, n) ==
    IF n = 0 THEN 0 ELSE SumAmounts(targets, n - 1) + targets[n]

\* AllocationConfig: ID and Source are given; Targets holds the amounts
AllocationConfigs ==
    [Strategy : AllocationStrategies,
     Targets : ListsUpTo(Amounts, MaxTargets),
     Remainder : {"", RemainderKey},
     Precision : {0, 1, 2}]

\* NewAllocation (buildup_test.go:303-353): <<rule>>, or <<>> for an error
NewAllocation(cfg) ==
    IF Len(cfg.Targets) = 0 THEN <<>>
    ELSE IF cfg.Strategy = StrategyPercentage
            /\ SumAmounts(cfg.Targets, Len(cfg.Targets)) # 100
    THEN <<>>
    ELSE IF cfg.Strategy \in {StrategyWeighted, StrategyRatio, StrategyFixed}
            /\ \E i \in 1..Len(cfg.Targets) : cfg.Targets[i] < 0
    THEN <<>>
    ELSE <<[strategy |-> cfg.Strategy, targets |-> cfg.Targets,
            remainder |-> cfg.Remainder,
            precision |-> IF cfg.Precision <= 0 THEN 2 ELSE cfg.Precision]>>

AllocationRules == {NewAllocation(cfg)[1] : cfg \in {c \in AllocationConfigs : NewAllocation(c) # <<>>}}

\* The rule of TestAllocationPercentage with two targets (README.md:229-238)
TestAllocation ==
    [strategy |-> StrategyPercentage, targets |-> <<70, 30>>, remainder |-> "",
     precision |-> 2]

\* What the context holds under the source key: a float64, or nothing
AllocSources ==
    {<<>>} \cup {<<x>> : x \in {Fin(0), Fin(1000), Fin(10005), Fin(-10005), Fin(100000),
                                Fin(1500000), Inf(1), NaN}}

\* r.round(source * amount / denom) (buildup_test.go:391, 413, 421, 437,
\* 448-451), for whole amount and denom > 0: the product and the value
\* scaled by 10^precision overflow above FloatMax
RoundedShare(source, amount, denom, precision) ==
    IF source.k = "nan" THEN NaN
    ELSE IF source.k = "inf"
    THEN (IF amount = 0 THEN NaN ELSE Inf(source.n * Sign(amount)))
    ELSE IF Abs(source.n * amount) > FloatMax
    THEN Inf(Sign(source.n * amount))
    ELSE IF Abs(source.n * amount) * Pow10(precision) > FloatMax * denom
    THEN Inf(Sign(source.n * amount))
    ELSE Fin(RoundHalfAway(source.n * amount * Pow10(precision), denom * Unit)
             * (Unit \div Pow10(precision)))

RECURSIVE Total(_, _)
Total(allocations, n) ==
    IF n = 0 THEN Fin(0) ELSE FAdd(Total(allocations, n - 1), allocations[n])

\* Mutant: no remainder is computed
Remainder_Zero(source, total) == Fin(0)

\* source - total (buildup_test.go:394, 402, 416, 425, 440)
Remainder(source, total) == FSub(source, total)

\* AllocationRule.calculate (buildup_test.go:384-446)
calculate(r, source) ==
    LET n == Len(r.targets)
        tw == SumAmounts(r.targets, n)
        byShare(denom) == [i \in 1..n |-> RoundedShare(source, r.targets[i], denom, r.precision)]
        zeros == [i \in 1..n |-> Fin(0)]
        allocations ==
            CASE r.strategy = StrategyPercentage -> byShare(100)
              [] r.strategy = StrategyFixed -> [i \in 1..n |-> Fin(r.targets[i] * Unit)]
              [] r.strategy \in {StrategyWeighted, StrategyRatio} ->
                    IF tw = 0 THEN zeros ELSE byShare(tw)
              [] r.strategy = StrategyEqual ->
                    [i \in 1..n |-> RoundedShare(source, 1, n, r.precision)]
    IN
    IF r.strategy \in {StrategyWeighted, StrategyRatio} /\ tw = 0
    THEN [allocations |-> zeros, remainder |-> source]
    ELSE [allocations |-> allocations,
          remainder |-> Remainder(source, Total(allocations, n))]

RECURSIVE SetTargets(_, _, _)
SetTargets(values, allocations, n) ==
    IF n = 0 THEN values
    ELSE MapPut(SetTargets(values, allocations, n - 1), TargetKey(n), allocations[n])

\* remainder != 0: true of NaN
NonZero(x) == x # Fin(0)

\* The context with the source value, and a rule to evaluate on it
AllocInit(allocRules, sources) ==
    al \in [rule : allocRules, source : sources, values : {EmptyMap}, out : {<<>>}]

\* AllocationRule.Evaluate (buildup_test.go:365-382); out keeps what
\* calculate returned and the error
AllocationEvaluate ==
    /\ al.out = <<>>
    /\ IF al.source = <<>>
       THEN al' = [al EXCEPT !.out = <<[allocations |-> <<>>, remainder |-> Fin(0),
                                        err |-> <<NewRuleError("alloc", "allocation", "evaluate",
                                                               ErrValueNotFound)>>]>>]
       ELSE LET c == calculate(al.rule, al.source[1])
                written == SetTargets(al.values, c.allocations, Len(al.rule.targets))
            IN al' = [al EXCEPT
                        !.values = IF al.rule.remainder # "" /\ NonZero(c.remainder)
                                   THEN MapPut(written, al.rule.remainder, c.remainder)
                                   ELSE written,
                        !.out = <<[allocations |-> c.allocations,
                                   remainder |-> c.remainder, err |-> <<>>]>>]
    /\ UNCHANGED exceptAlloc

-----------------------------------------------------------------------------
(* The expression lexer, src/expr/lexer.go.  An input string is a sequence *)
(* of characters, each a string of length one; NUL is the byte 0, which    *)
(* is also what the lexer reads past the end of the input.  Token.Pos,     *)
(* which only appears in messages, is left out.                            *)

NUL == "NUL"

\* unicode.IsLetter(ch) || ch == '_' (lexer.go:200-202)
Letters == {"a", "b", "c", "e", "f", "i", "l", "m", "n", "r", "s", "t", "u", "x", "_"}

Digits == {"0", "1", "2", "3", "4", "5", "6", "7", "8", "9"}

isDigit(ch) == ch \in Digits

isLetter(ch) == ch \in Letters

\* input[i], 0-based, 0 past the end
CharAt(input, i) == IF i >= Len(input) THEN NUL ELSE input[i + 1]

\* input[start:end]
Slice(input, start, end) == SubSeq(input, start + 1, end)

readChar(l) == [l EXCEPT !.ch = CharAt(l.input, l.pos), !.pos = l.pos + 1]

peekChar(l) == CharAt(l.input, l.pos)

NewLexer(input) == readChar([input |-> input, pos |-> 0, ch |-> NUL])

RECURSIVE skipWhitespace(_)
skipWhitespace(l) ==
    IF l.ch \in {" ", "\t", "\n", "\r"} THEN skipWhitespace(readChar(l)) ELSE l

Token(type, literal) == [Type |-> type, Literal |-> literal]

\* The loop of readNumber (lexer.go:151-156)
RECURSIVE ScanNumber(_, _)
ScanNumber(l, hasDot) ==
    IF isDigit(l.ch) \/ (l.ch = "." /\ ~hasDot)
    THEN ScanNumber(readChar(l), hasDot \/ l.ch = ".")
    ELSE l

\* The NUMBER token from l to end
NumberToken(l, end) ==
    [tok |-> Token("NUMBER", Slice(l.input, l.pos - 1, end.pos - 1)), lexer |-> end]

\* Lexer.readNumber (lexer.go:147-159)
readNumber(l) == NumberToken(l, ScanNumber(l, FALSE))

\* The loop of readIdentifier (lexer.go:164-166)
RECURSIVE ScanIdentifier(_)
ScanIdentifier(l) ==
    IF isLetter(l.ch) \/ isDigit(l.ch) \/ l.ch = "_"
    THEN ScanIdentifier(readChar(l))
    ELSE l

\* The token of the identifier literal: a boolean literal or a name
IdentifierToken(literal, end) ==
    [tok |-> IF literal \in {<<"t", "r", "u", "e">>, <<"f", "a", "l", "s", "e">>}
             THEN Token("BOOL", literal)
             ELSE Token("IDENT", literal),
     lexer |-> end]

\* The identifier from l to end
IdentifierFrom(l, end) == IdentifierToken(Slice(l.input, l.pos - 1, end.pos - 1), end)

\* Lexer.readIdentifier (lexer.go:161-176)
readIdentifier(l) == IdentifierFrom(l, ScanIdentifier(l))

\* The loop of readString (lexer.go:182-184)
RECURSIVE ScanString(_, _)
ScanString(l, quote) ==
    IF l.ch # quote /\ l.ch # NUL THEN ScanString(readChar(l), quote) ELSE l

\* The token of the string that starts at start, the scan having stopped at
\* end: the closing quote or the end of the input
StringToken(input, start, end) ==
    IF end.ch = NUL
    THEN [tok |-> Token("ERROR", <<"unterminated string">>), lexer |-> end]
    ELSE [tok |-> Token("STRING", Slice(input, start, end.pos - 1)),
          lexer |-> readChar(end)]

\* Lexer.readString (lexer.go:178-194)
readString(l, quote) == StringToken(l.input, l.pos, ScanString(readChar(l), quote))

\* The one-character tokens of NextToken (lexer.go:53-76)
SingleChars == {"+", "-", "*", "/", "%", "(", ")", ","}

\* case '=', '<', '>', '&', '|' (lexer.go:77-125): the token when the next
\* character is the second one, and the token when it is not
TwoCharToken(l, second, both, alone) ==
    IF peekChar(l) = second
    THEN [tok |-> both, lexer |-> readChar(readChar(l))]
    ELSE [tok |-> alone, lexer |-> readChar(l)]

\* The switch of NextToken (lexer.go:50-141) on the character at hand
TokenAt(l) ==
    CASE l.ch = NUL -> [tok |-> Token("EOF", <<>>), lexer |-> l]
      [] l.ch \in SingleChars -> [tok |-> Token(l.ch, <<l.ch>>), lexer |-> readChar(l)]
      [] l.ch = "=" -> TwoCharToken(l, "=", Token("==", <<"=", "=">>),
                                    Token("ERROR", <<"unexpected '='">>))
      [] l.ch = "!" -> TwoCharToken(l, "=", Token("!=", <<"!", "=">>), Token("!", <<"!">>))
      [] l.ch = "<" -> TwoCharToken(l, "=", Token("<=", <<"<", "=">>), Token("<", <<"<">>))
      [] l.ch = ">" -> TwoCharToken(l, "=", Token(">=", <<">", "=">>), Token(">", <<">">>))
      [] l.ch = "&" -> TwoCharToken(l, "&", Token("&&", <<"&", "&">>),
                                    Token("ERROR", <<"unexpected '&'">>))
      [] l.ch = "|" -> TwoCharToken(l, "|", Token("||", <<"|", "|">>),
                                    Token("ERROR", <<"unexpected '|'">>))
      [] l.ch \in {"\"", "'"} -> readString(l, l.ch)
      [] OTHER ->
            IF isDigit(l.ch) THEN readNumber(l)
            ELSE IF isLetter(l.ch) THEN readIdentifier(l)
            ELSE [tok |-> Token("ERROR", <<l.ch>>), lexer |-> readChar(l)]

\* Lexer.NextToken (lexer.go:44-145): the token and the lexer after it
NextToken(l) == TokenAt(skipWhitespace(l))

-----------------------------------------------------------------------------
(* The AST, src/unnamed/part_002, and the parser, src/expr/token.go *)

\* The nil Node
NilNode == [kind |-> "nil"]

NumberLit(value) == [kind |-> "NumberLit", Value |-> value]

StringLit(value) == [kind |-> "StringLit", Value |-> value]

BoolLit(value) == [kind |-> "BoolLit", Value |-> value]

Ident(name) == [kind |-> "Ident", Name |-> name]

BinaryExpr(op, left, right) == [kind |-> "BinaryExpr", Op |-> op, Left |-> left, Right |-> right]

UnaryExpr(op, e) == [kind |-> "UnaryExpr", Op |-> op, Expr |-> e]

CallExpr(name, args) == [kind |-> "CallExpr", Name |-> name, Args |-> args]

\* A float64 as a fraction n/den in lowest terms, den > 0, so that the
\* arithmetic of the model is exact
Frac(n, den) == [n |-> n, den |-> den]

RECURSIVE GCD(_, _)
GCD(a, b) == IF b = 0 THEN a ELSE GCD(b, a % b)

\* n/den in lowest terms with a positive denominator, den # 0
Norm(n, den) ==
    LET s == IF den < 0 THEN -1 ELSE 1
        g == GCD(IF n < 0 THEN -n ELSE n, s * den)
    IN Frac((s * n) \div g, (s * den) \div g)

FracAdd(a, b) == Norm(a.n * b.den + b.n * a.den, a.den * b.den)

FracSub(a, b) == Norm(a.n * b.den - b.n * a.den, a.den * b.den)

FracMul(a, b) == Norm(a.n * b.n, a.den * b.den)

FracDiv(a, b) == Norm(a.n * b.den, a.den * b.n)

FracLt(a, b) == a.n * b.den < b.n * a.den

FracNeg(a) == Frac(-a.n, a.den)

\* The integer part of a, towards zero
Trunc(a) == IF a.n >= 0 THEN a.n \div a.den ELSE -((-a.n) \div a.den)

\* math.Mod(a, b), b # 0: the remainder with the sign of a
FracMod(a, b) == FracSub(a, FracMul(b, Frac(Trunc(FracDiv(a, b)), 1)))

DigitValue(ch) == CHOOSE d \in 0..9 : Digits \cap {ch} = {ToString(d)}

\* strconv.ParseFloat of digits with at most one '.': the value read so far
\* and the power of ten of the digits after the '.'
RECURSIVE ScanFloat(_, _, _, _)
ScanFloat(literal, i, value, seenDot) ==
    IF i > Len(literal) THEN value
    ELSE IF literal[i] = "." THEN ScanFloat(literal, i + 1, value, TRUE)
    ELSE ScanFloat(literal, i + 1,
                   Frac(value.n * 10 + DigitValue(literal[i]),
                        IF seenDot THEN value.den * 10 ELSE value.den),
                   seenDot)

\* The value read, in lowest terms
FloatOf(f) == <<Norm(f.n, f.den)>>

\* strconv.ParseFloat(literal, 64) (token.go:203): <<value>>, or <<>> for an
\* error
ParseFloat(literal) ==
    IF /\ \A i \in 1..Len(literal) : isDigit(literal[i]) \/ literal[i] = "."
       /\ \E i \in 1..Len(literal) : isDigit(literal[i])
       /\ Cardinality({i \in 1..Len(literal) : literal[i] = "."}) <= 1
    THEN FloatOf(ScanFloat(literal, 1, Frac(0, 1), FALSE))
    ELSE <<>>

precLowest == 0
precOr == 1
precAnd == 2
precCompare == 3
precSum == 4
precProduct == 5

\* Mutant: every binary operator binds alike
precedence_Flat(t) ==
    IF t \in {"||", "&&", "==", "!=", "<", "<=", ">", ">=", "+", "-", "*", "/", "%"}
    THEN precOr ELSE precLowest

\* precedence (token.go:160-175)
precedence(t) ==
    CASE t = "||" -> precOr
      [] t = "&&" -> precAnd
      [] t \in {"==", "!=", "<", "<=", ">", ">="} -> precCompare
      [] t \in {"+", "-"} -> precSum
      [] t \in {"*", "/", "%"} -> precProduct
      [] OTHER -> precLowest

\* The parser p with next as the token read from the lexer
Advanced(p, next) == [p EXCEPT !.current = p.peek, !.peek = next.tok, !.lexer = next.lexer]

\* Parser.advance (token.go:121-124)
advance(p) == Advanced(p, NextToken(p.lexer))

addError(p, msg) == [p EXCEPT !.errors = Append(@, msg)]

\* NewParser (token.go:114-119)
NewParser(input) ==
    advance(advance([lexer |-> NewLexer(input), current |-> Token("EOF", <<>>),
                     peek |-> Token("EOF", <<>>), errors |-> <<>>]))

RECURSIVE parseExpression(_, _)
RECURSIVE parseOperators(_, _, _)
RECURSIVE parseUnary(_)
RECURSIVE parsePrimary(_)
RECURSIVE parseCall(_, _)
RECURSIVE parseArgs(_, _)

\* The loop of parseExpression entered with the operand left (token.go:178-180)
parseOperatorsAfter(left, prec) == parseOperators(left.p, prec, left.node)

\* Parser.parseExpression (token.go:177-189): the node and the parser after
parseExpression(p, prec) == parseOperatorsAfter(parseUnary(p), prec)

\* One turn of the loop (token.go:183-185): the operand right joins left
\* under op, and the loop goes on
parseBinary(op, prec, left, right) ==
    parseOperators(right.p, prec, BinaryExpr(op, left, right.node))

\* The loop of parseExpression (token.go:180-186)
parseOperators(p, prec, left) ==
    IF prec < precedence(p.current.Type)
    THEN parseBinary(p.current.Type, prec, left,
                     parseExpression(advance(p), precedence(p.current.Type)))
    ELSE [node |-> left, p |-> p]

\* return &UnaryExpr{Op: op, Expr: expr} (token.go:195)
UnaryOf(op, e) == [node |-> UnaryExpr(op, e.node), p |-> e.p]

\* Parser.parseUnary (token.go:191-198)
parseUnary(p) ==
    IF p.current.Type \in {"!", "-"}
    THEN UnaryOf(p.current.Type, parseUnary(advance(p)))
    ELSE parsePrimary(p)

\* case NUMBER (token.go:202-209) with val the outcome of ParseFloat
NumberOf(p, next, val) ==
    IF val = <<>>
    THEN [node |-> NilNode, p |-> addError(p, "invalid number")]
    ELSE [node |-> NumberLit(val[1]), p |-> next]

\* case LPAREN (token.go:232-240) with inner the parsed inside
Parenthesised(inner) ==
    IF inner.p.current.Type # ")"
    THEN [node |-> NilNode, p |-> addError(inner.p, "expected ')'")]
    ELSE [node |-> inner.node, p |-> advance(inner.p)]

\* The switch of parsePrimary (token.go:201-245), next being the parser after
\* p.advance()
PrimaryAt(p, next) ==
    CASE p.current.Type = "NUMBER" -> NumberOf(p, next, ParseFloat(p.current.Literal))
      [] p.current.Type = "STRING" -> [node |-> StringLit(p.current.Literal), p |-> next]
      [] p.current.Type = "BOOL" ->
            [node |-> BoolLit(p.current.Literal = <<"t", "r", "u", "e">>), p |-> next]
      [] p.current.Type = "IDENT" ->
            IF next.current.Type = "("
            THEN parseCall(next, p.current.Literal)
            ELSE [node |-> Ident(p.current.Literal), p |-> next]
      [] p.current.Type = "(" -> Parenthesised(parseExpression(next, precLowest))
      [] OTHER -> [node |-> NilNode, p |-> addError(p, "unexpected token")]

\* Parser.parsePrimary (token.go:200-246)
parsePrimary(p) == PrimaryAt(p, advance(p))

\* args = append(args, p.parseExpression(precLowest)) (token.go:258), and the
\* loop goes on
parseArgsAfter(args, arg) == parseArgs(arg.p, Append(args, arg.node))

\* The loop of parseCall (token.go:256-259): the arguments and the parser
\* after them
parseArgs(p, args) ==
    IF p.current.Type = ","
    THEN parseArgsAfter(args, parseExpression(advance(p), precLowest))
    ELSE [args |-> args, p |-> p]

\* The end of parseCall (token.go:262-268) with list the arguments read
CallOf(name, list) ==
    IF list.p.current.Type # ")"
    THEN [node |-> NilNode, p |-> addError(list.p, "expected ')'")]
    ELSE [node |-> CallExpr(name, list.args), p |-> advance(list.p)]

\* The arguments of a call (token.go:253-260), open being the parser after the
\* opening parenthesis
CallArgs(open) ==
    IF open.current.Type # ")"
    THEN parseArgsAfter(<<>>, parseExpression(open, precLowest))
    ELSE [args |-> <<>>, p |-> open]

\* Parser.parseCall (token.go:248-269)
parseCall(p, name) == CallOf(name, CallArgs(advance(p)))

\* The outcome of Parser.Parse (token.go:139-147) with r the expression read
ParseOf(r) ==
    IF r.p.current.Type # "EOF"
    THEN [node |-> NilNode, err |-> <<"unexpected token">>]
    ELSE IF Len(r.p.errors) > 0
    THEN [node |-> NilNode, err |-> <<"parse errors">>]
    ELSE [node |-> r.node, err |-> <<>>]

\* Parser.Parse and Parse (token.go:136-148, 272-275): the AST and the
\* error, <<>> for none
Parse(input) == ParseOf(parseExpression(NewParser(input), precLowest))

-----------------------------------------------------------------------------
(* The evaluator, src/unnamed/part_003.  A Go value is Val(t, n) with a     *)
(* fraction n for a number, a BOOLEAN for a bool and the characters for a  *)
(* string.                                                                 *)


Float(q) == Val("float64", q)

Bool(b) == Val("bool", b)

Str(s) == Val("string", s)

\* fmt.Errorf(msg) without %w: an error that wraps no sentinel
Errorf(msg) == <<Sentinel(msg)>>

EvalOk(v) == [v |-> v, err |-> <<>>]

EvalErr(err) == [v |-> Nil, err |-> err]

\* The cases of toFloat (part_003:246-256)
ExprNumericTypes == {"float64", "float32", "int", "int64", "int32"}

\* toFloat (part_003:245-260): <<f>>, or <<>> for "expected number"
toFloat(v) == IF v.t \in ExprNumericTypes THEN <<v.n>> ELSE <<>>

ErrExpectedNumber == "expected number"

\* equals (part_003:262-269): a == b on two interface values is false for
\* different dynamic types
equals(a, b) ==
    IF toFloat(a) # <<>> /\ toFloat(b) # <<>>
    THEN toFloat(a)[1] = toFloat(b)[1]
    ELSE a.t = b.t /\ a = b

\* Evaluator.evalUnary (part_003:109-128)
evalUnary(op, val) ==
    CASE op = "!" -> IF val.t # "bool" THEN EvalErr(Errorf("expected bool for !"))
                     ELSE EvalOk(Bool(~val.n))
      [] op = "-" -> IF toFloat(val) = <<>> THEN EvalErr(Errorf(ErrExpectedNumber))
                     ELSE EvalOk(Float(FracNeg(toFloat(val)[1])))
      [] OTHER -> EvalErr(Errorf("unknown unary operator"))

\* The arithmetic and comparison cases of evalBinary on two floats
\* (part_003:152-239)
Arith(op, lf, rf) ==
    CASE op = "<" -> EvalOk(Bool(FracLt(lf, rf)))
      [] op = "<=" -> EvalOk(Bool(~FracLt(rf, lf)))
      [] op = ">" -> EvalOk(Bool(FracLt(rf, lf)))
      [] op = ">=" -> EvalOk(Bool(~FracLt(lf, rf)))
      [] op = "+" -> EvalOk(Float(FracAdd(lf, rf)))
      [] op = "-" -> EvalOk(Float(FracSub(lf, rf)))
      [] op = "*" -> EvalOk(Float(FracMul(lf, rf)))
      [] op = "/" -> IF rf.n = 0 THEN EvalErr(Errorf("division by zero"))
                     ELSE EvalOk(Float(FracDiv(lf, rf)))
      [] op = "%" -> IF rf.n = 0 THEN EvalErr(Errorf("modulo by zero"))
                     ELSE EvalOk(Float(FracMod(lf, rf)))

\* Evaluator.evalBinary (part_003:130-243)
evalBinary(op, left, right) ==
    CASE op \in {"&&", "||"} ->
            IF left.t # "bool" \/ right.t # "bool"
            THEN EvalErr(Errorf("expected bool"))
            ELSE EvalOk(Bool(IF op = "&&" THEN left.n /\ right.n ELSE left.n \/ right.n))
      [] op = "==" -> EvalOk(Bool(equals(left, right)))
      [] op = "!=" -> EvalOk(Bool(~equals(left, right)))
      [] op = "+" /\ left.t = "string" /\ right.t = "string" ->
            EvalOk(Str(left.n \o right.n))
      [] op \in {"<", "<=", ">", ">=", "+", "-", "*", "/", "%"} ->
            IF toFloat(left) = <<>> \/ toFloat(right) = <<>>
            THEN EvalErr(Errorf(ErrExpectedNumber))
            ELSE Arith(op, toFloat(left)[1], toFloat(right)[1])
      [] OTHER -> EvalErr(Errorf("unknown binary operator"))

\* toFloat of every argument: the floats, or <<>> when one is no number
ArgFloats(args) ==
    IF \E i \in 1..Len(args) : toFloat(args[i]) = <<>> THEN <<>>
    ELSE <<[i \in 1..Len(args) |-> toFloat(args[i])[1]]>>

\* The least (most = FALSE) or greatest of the floats fs, by the loops of
\* funcMin and funcMax (part_003:280-288, 301-309)
RECURSIVE Extreme(_, _, _, _)
Extreme(fs, i, result, most) ==
    IF i > Len(fs) THEN result
    ELSE Extreme(fs, i + 1,
                 IF (most /\ FracLt(result, fs[i])) \/ (~most /\ FracLt(fs[i], result))
                 THEN fs[i] ELSE result,
                 most)

\* funcMin, funcMax (part_003:272-310)
funcExtreme(args, most) ==
    IF Len(args) < 2 THEN EvalErr(Errorf("requires at least 2 arguments"))
    ELSE IF ArgFloats(args) = <<>> THEN EvalErr(Errorf(ErrExpectedNumber))
    ELSE EvalOk(Float(Extreme(ArgFloats(args)[1], 2, ArgFloats(args)[1][1], most)))

\* funcAbs (part_003:312-321)
funcAbs(args) ==
    IF Len(args) # 1 THEN EvalErr(Errorf("abs requires 1 argument"))
    ELSE IF toFloat(args[1]) = <<>> THEN EvalErr(Errorf(ErrExpectedNumber))
    ELSE EvalOk(Float(IF toFloat(args[1])[1].n < 0 THEN FracNeg(toFloat(args[1])[1])
                     ELSE toFloat(args[1])[1]))

\* funcIf (part_003:365-377)
funcIf(args) ==
    IF Len(args) # 3 THEN EvalErr(Errorf("if requires 3 arguments"))
    ELSE IF args[1].t # "bool" THEN EvalErr(Errorf("if condition must be bool"))
    ELSE IF args[1].n THEN EvalOk(args[2]) ELSE EvalOk(args[3])

\* The functions of registerBuiltins (part_003:31-41) that the model
\* carries; floor, ceil, round, sqrt and pow are outside it, and no input
\* of the model names them
funcs == {<<"m", "i", "n">>, <<"m", "a", "x">>, <<"a", "b", "s">>, <<"i", "f">>}

CallFunc(name, args) ==
    CASE name = <<"m", "i", "n">> -> funcExtreme(args, FALSE)
      [] name = <<"m", "a", "x">> -> funcExtreme(args, TRUE)
      [] name = <<"a", "b", "s">> -> funcAbs(args)
      [] name = <<"i", "f">> -> funcIf(args)

RECURSIVE eval(_, _)
RECURSIVE evalArgs(_, _, _, _)

\* if err != nil { return nil, err } on the operand, then evalUnary
\* (part_003:76-80)
evalUnaryOn(op, val) == IF val.err # <<>> THEN val ELSE evalUnary(op, val.v)

\* Mutant: && and || do not evaluate the right operand when the left one
\* decides
evalBinaryOn_ShortCircuit(op, left, right) ==
    IF left.err # <<>> THEN left
    ELSE IF op = "&&" /\ left.v.t = "bool" /\ ~left.v.n THEN EvalOk(Bool(FALSE))
    ELSE IF op = "||" /\ left.v.t = "bool" /\ left.v.n THEN EvalOk(Bool(TRUE))
    ELSE IF right.err # <<>> THEN right
    ELSE evalBinary(op, left.v, right.v)

\* The same on the two operands of a BinaryExpr, the left one first
\* (part_003:83-91)
evalBinaryOn(op, left, right) ==
    IF left.err # <<>> THEN left
    ELSE IF right.err # <<>> THEN right
    ELSE evalBinary(op, left.v, right.v)

\* fn(args...) on the evaluated arguments (part_003:95-103)
evalCallOn(name, args) ==
    IF args.err # <<>> THEN EvalErr(args.err) ELSE CallFunc(name, args.args)

\* One turn of the loop, val being the value of argument i
evalArgsAfter(args, i, values, done, val) ==
    IF val.err # <<>> THEN [args |-> done, err |-> val.err]
    ELSE evalArgs(args, i + 1, values, Append(done, val.v))

\* The loop over n.Args of the CallExpr case (part_003:95-101): the values
\* of the arguments, or the first error
evalArgs(args, i, values, done) ==
    IF i > Len(args) THEN [args |-> done, err |-> <<>>]
    ELSE evalArgsAfter(args, i, values, done, eval(args[i], values))

\* Evaluator.eval (part_003:53-107) against a getter over the map values
eval(node, values) ==
    CASE node.kind = "NumberLit" -> EvalOk(Float(node.Value))
      [] node.kind = "StringLit" -> EvalOk(Str(node.Value))
      [] node.kind = "BoolLit" -> EvalOk(Bool(node.Value))
      [] node.kind = "Ident" ->
            IF node.Name \notin DOMAIN values THEN EvalErr(Errorf("undefined variable"))
            ELSE EvalOk(values[node.Name])
      [] node.kind = "UnaryExpr" -> evalUnaryOn(node.Op, eval(node.Expr, values))
      [] node.kind = "BinaryExpr" ->
            evalBinaryOn(node.Op, eval(node.Left, values), eval(node.Right, values))
      [] node.kind = "CallExpr" ->
            IF node.Name \notin funcs THEN EvalErr(Errorf("undefined function"))
            ELSE evalCallOn(node.Name, evalArgs(node.Args, 1, values, <<>>))
      [] OTHER -> EvalErr(Errorf("unknown node type"))

\* Compile (expr_test.go:283-295): the Expression's ast, and the error
Compile(input) == Parse(input)

\* Expression.Eval (expr_test.go:311-313)
ExpressionEval(e, values) == eval(e.node, values)

-----------------------------------------------------------------------------
(* Formula rules over expressions, src/formula.go.  A FormulaFunc or a     *)
(* ValueFunc is <<fn>> and nil is <<>>; a compiled expression is <<ast>>.   *)

ErrInvalidExpression == "ErrInvalidExpression"

\* Mutant: the expression is not compiled
CompileIn_Never(cfg) == FALSE

\* Whether NewFormula compiles cfg.Expression (formula.go:56)
CompileIn(cfg) == cfg.Expression # <<>> /\ cfg.Formula = <<>>

\* The end of NewFormula (formula.go:57-77), compiled being <<the outcome of
\* Compile>> or <<>> when the expression is not compiled
FormulaOf(cfg, compiled) ==
    IF compiled # <<>> /\ compiled[1].err # <<>>
    THEN [rule |-> <<>>, err |-> <<Sentinel(ErrInvalidExpression)>>]
    ELSE [rule |-> <<[id |-> cfg.ID, target |-> cfg.Target, formula |-> cfg.Formula,
                      expression |-> cfg.Expression,
                      compiledExpr |-> IF compiled # <<>> THEN <<compiled[1].node>>
                                       ELSE <<>>]>>,
          err |-> <<>>]

\* NewFormula (formula.go:44-78): the rule, <<>> for nil, and the error
NewFormula(cfg) ==
    IF cfg.ID = "" \/ cfg.Target = <<>> \/ (cfg.Formula = <<>> /\ cfg.Expression = <<>>)
    THEN [rule |-> <<>>, err |-> <<Sentinel(ErrInvalidRule)>>]
    ELSE FormulaOf(cfg, IF CompileIn(cfg) THEN <<Compile(cfg.Expression)>> ELSE <<>>)

\* The characters an input of SpecParse is made of
ParseAlphabet == {"a", "1", "-", "*", "!", "=", "&", "(", ")", ",", "'", " ", NUL}

\* The binary operators as they are written
BinaryOperators ==
    {[op |-> "||", chars |-> <<"|", "|">>], [op |-> "&&", chars |-> <<"&", "&">>],
     [op |-> "==", chars |-> <<"=", "=">>], [op |-> "!=", chars |-> <<"!", "=">>],
     [op |-> "<", chars |-> <<"<">>], [op |-> "<=", chars |-> <<"<", "=">>],
     [op |-> ">", chars |-> <<">">>], [op |-> ">=", chars |-> <<">", "=">>],
     [op |-> "+", chars |-> <<"+">>], [op |-> "-", chars |-> <<"-">>],
     [op |-> "*", chars |-> <<"*">>], [op |-> "/", chars |-> <<"/">>],
     [op |-> "%", chars |-> <<"%">>]}

UnaryOperators == {"!", "-"}

\* a op b op c for every two binary operators
TwoOperatorInputs ==
    {<<"a">> \o o1.chars \o <<"b">> \o o2.chars \o <<"c">> : o1, o2 \in BinaryOperators}

\* u a op b, a op u b and u u a
UnaryInputs ==
    {<<u, "a">> \o o.chars \o <<"b">> : u \in UnaryOperators, o \in BinaryOperators}
    \cup {<<"a">> \o o.chars \o <<u, "b">> : u \in UnaryOperators, o \in BinaryOperators}
    \cup {<<u1, u2, "a">> : u1, u2 \in UnaryOperators}

ParseInputs == ListsUpTo(ParseAlphabet, MaxInput) \cup TwoOperatorInputs \cup UnaryInputs

\* The configurations NewFormula is given for an expression
FormulaConfigsOf(input) ==
    [ID : {"r"}, Target : {<<"x">>}, Formula : {<<>>, <<"fn">>}, Expression : {input}]

ParseInit(inputs) ==
    \E input \in inputs : ex = [input |-> input, out |-> <<>>, built |-> <<>>]

\* expr.Compile(input) by the caller
ExprCompile ==
    /\ ex.out = <<>>
    /\ ex' = [ex EXCEPT !.out = <<Compile(ex.input)>>]
    /\ UNCHANGED exceptExpr

\* NewFormula(cfg) by the caller, with the input as cfg.Expression
ExprNewFormula(cfg) ==
    /\ ex.out # <<>> /\ ex.built = <<>>
    /\ ex' = [ex EXCEPT !.built = <<[cfg |-> cfg, new |-> NewFormula(cfg)]>>]
    /\ UNCHANGED exceptExpr

-----------------------------------------------------------------------------
(* Construction and evaluation of assignment and formula rules,            *)
(* src/assignment.go and src/formula.go, on an eval context that is the    *)
(* map of its values.                                                      *)

\* What the ValueFunc or FormulaFunc fn returns: "fn" a value, "failing" an
\* error
FuncResult(fn) ==
    IF fn = "fn" THEN EvalOk(Float(Frac(9, 1))) ELSE EvalErr(Errorf(ErrIntentional))

Funcs == {<<>>, <<"fn">>, <<"failing">>}

\* NewAssignment (assignment.go:36-59): the rule, <<>> for nil, and the
\* error
NewAssignment(cfg) ==
    IF cfg.ID = "" \/ cfg.Target = <<>> \/ (cfg.Value = Nil /\ cfg.ValueFunc = <<>>)
    THEN [rule |-> <<>>, err |-> <<Sentinel(ErrInvalidRule)>>]
    ELSE [rule |-> <<[id |-> cfg.ID, target |-> cfg.Target, value |-> cfg.Value,
                      valueFunc |-> cfg.ValueFunc]>>,
          err |-> <<>>]

\* EvalContext.Set on the map (expr_test.go:419-423)
SetValue(values, key, value) ==
    [k \in DOMAIN values \cup {key} |-> IF k = key THEN value ELSE values[k]]

\* RuleError wrapping err (NewRuleError, Unwrap)
WrapRuleError(ruleID, ruleType, err) ==
    <<NewRuleError(ruleID, ruleType, "evaluate", err[1].Err)>>

\* AssignmentRule.Evaluate (assignment.go:70-86): the values it leaves and
\* the error
AssignmentRuleEvaluate(r, values) ==
    IF r.valueFunc # <<>> /\ FuncResult(r.valueFunc[1]).err # <<>>
    THEN [values |-> values,
          err |-> WrapRuleError(r.id, "assignment", FuncResult(r.valueFunc[1]).err)]
    ELSE [values |-> SetValue(values, r.target,
                              IF r.valueFunc # <<>> THEN FuncResult(r.valueFunc[1]).v
                              ELSE r.value),
          err |-> <<>>]

\* The end of FormulaRule.Evaluate (formula.go:103-108) on the result of the
\* formula
FormulaResult(r, values, result) ==
    IF result.err # <<>>
    THEN [values |-> values, err |-> WrapRuleError(r.id, "formula", result.err)]
    ELSE [values |-> SetValue(values, r.target, result.v), err |-> <<>>]

\* FormulaRule.Evaluate (formula.go:89-109)
FormulaRuleEvaluate(r, values) ==
    FormulaResult(r, values,
                  IF r.formula # <<>> THEN FuncResult(r.formula[1])
                  ELSE IF r.compiledExpr # <<>> THEN eval(r.compiledExpr[1], values)
                  ELSE EvalErr(Errorf("no formula or expression configured")))

AssignmentConfigs ==
    [ID : {"", "r"}, Target : {<<>>, <<"x">>},
     Value : {Nil, Float(Frac(1, 1)), Str(<<"s">>)}, ValueFunc : Funcs]

\* The expressions of the formula configurations: empty, one operator on a
\* and b, a right operand that is computed, and four malformed ones
Expressions ==
    {<<>>, <<"a">>, <<"-", "a">>, <<"!", "a">>, <<"a", "/", "(", "b", "-", "b", ")">>,
     <<"a", "+">>, <<"(", "a">>, <<"a", "&", "b">>, <<"a", " ", "b">>}
    \cup {<<"a">> \o o.chars \o <<"b">> : o \in BinaryOperators}

FormulaConfigs ==
    [ID : {"", "r"}, Target : {<<>>, <<"x">>}, Formula : Funcs, Expression : Expressions]

\* The values of a in the context: one of every numeric type, a string, a
\* bool and nil
OperandValues ==
    {Val(t, Frac(6, 1)) : t \in GoNumericTypes} \cup {Str(<<"s">>), Bool(TRUE), Nil}

\* The values of b in the context
RightValues ==
    {Float(Frac(0, 1)), Val("int", Frac(0, 1)), Float(Frac(4, 1)),
     Val("uint16", Frac(4, 1)), Bool(FALSE)}

\* The contexts a rule is evaluated on: a and b set, or b alone
ValueMaps ==
    {(<<"a">> :> va) @@ (<<"b">> :> vb) : va \in OperandValues, vb \in RightValues}
    \cup {(<<"b">> :> vb) : vb \in RightValues}

NoNewRule == [kind |-> "assignment", cfg |-> CHOOSE cfg \in AssignmentConfigs : cfg.ID = ""]

NewRuleInit(calls) ==
    \E call \in calls : nr = [kind |-> call.kind, cfg |-> call.cfg, new |-> <<>>, eval |-> <<>>]

NewRuleCalls ==
    {[kind |-> "assignment", cfg |-> cfg] : cfg \in AssignmentConfigs}
    \cup {[kind |-> "formula", cfg |-> cfg] : cfg \in FormulaConfigs}

\* The expressions of SpecEager: an operand or a branch that is not selected
\* fails for some values of b
EagerExpressions ==
    {<<"i", "f", "(", "b", "!", "=", "0", ",", "1", "0", "/", "b", ",", "0", ")">>,
     <<"i", "f", "(", "t", "r", "u", "e", ",", "1", ",", "1", "/", "b", ")">>,
     <<"f", "a", "l", "s", "e", "&", "&", "(", "1", "/", "0", ">", "0", ")">>,
     <<"t", "r", "u", "e", "|", "|", "(", "1", "/", "0", ">", "0", ")">>,
     <<"b", "&", "&", "(", "1", "/", "0", ">", "0", ")">>,
     <<"(", "1", "/", "0", ">", "0", ")", "|", "|", "t", "r", "u", "e">>,
     <<"b", "|", "|", "a">>,
     <<"a", "&", "&", "b">>}

EagerCalls ==
    {[kind |-> "formula",
      cfg |-> [ID |-> "r", Target |-> <<"x">>, Formula |-> <<>>, Expression |-> e]] :
        e \in EagerExpressions}
    \cup {[kind |-> "assignment",
           cfg |-> [ID |-> "r", Target |-> <<"x">>, Value |-> Float(Frac(1, 1)),
                    ValueFunc |-> <<>>]]}

\* NewAssignment(cfg) by the caller
NewAssignmentCall ==
    /\ nr.kind = "assignment" /\ nr.new = <<>>
    /\ nr' = [nr EXCEPT !.new = <<NewAssignment(nr.cfg)>>]
    /\ UNCHANGED exceptNew

\* NewFormula(cfg) by the caller
NewFormulaCall ==
    /\ nr.kind = "formula" /\ nr.new = <<>>
    /\ nr' = [nr EXCEPT !.new = <<NewFormula(nr.cfg)>>]
    /\ UNCHANGED exceptNew

\* rule.Evaluate(ctx, evalCtx) on the rule that was returned, with an eval
\* context holding values
NewRuleEvaluate(values) ==
    /\ nr.new # <<>> /\ nr.new[1].rule # <<>> /\ nr.eval = <<>>
    /\ nr' = [nr EXCEPT !.eval =
                 <<[before |-> values,
                    out |-> IF nr.kind = "assignment"
                            THEN AssignmentRuleEvaluate(nr.new[1].rule[1], values)
                            ELSE FormulaRuleEvaluate(nr.new[1].rule[1], values)]>>]
    /\ UNCHANGED exceptNew

-----------------------------------------------------------------------------
(* The five rule variants evaluated on one eval context, which is its      *)
(* values, its buildups and its registered lookups.  A context of an       *)
(* allocation rule holds float64 values as Val("float64", x) with x of     *)
(* the float64 arithmetic above.                                           *)

\* EvalContext.GetFloat64 (expr_test.go:468-474): the float and the error
GetFloat64(values, key) ==
    IF key \notin DOMAIN values THEN [v |-> 0, err |-> <<ErrValueNotFound>>]
    ELSE IF toFloat64(values[key]) = <<>> THEN [v |-> 0, err |-> <<ErrTypeMismatch>>]
    ELSE [v |-> toFloat64(values[key])[1], err |-> <<>>]

AllocSourceKey == "src"

\* Mutant: the remainder is written whenever a key is configured
WritesRemainder_Always(r, remainder) == r.remainder # ""

\* if r.remainder != "" && remainder != 0 (buildup_test.go:377)
WritesRemainder(r, remainder) == r.remainder # "" /\ NonZero(remainder)

\* The writes of AllocationRule.Evaluate (buildup_test.go:373-379), c being
\* what calculate returned
AllocationSet(r, values, c) ==
    [values |-> IF WritesRemainder(r, c.remainder)
                THEN MapPut(SetTargets(values, [i \in 1..Len(r.targets) |->
                                                    Val("float64", c.allocations[i])],
                                       Len(r.targets)),
                            r.remainder, Val("float64", c.remainder))
                ELSE SetTargets(values, [i \in 1..Len(r.targets) |->
                                            Val("float64", c.allocations[i])],
                                Len(r.targets)),
     err |-> <<>>]

\* AllocationRule.Evaluate (buildup_test.go:365-382) after the read of the
\* source
AllocationOn(r, values, source) ==
    IF source.err # <<>>
    THEN [values |-> values,
          err |-> <<NewRuleError("alloc", "allocation", "evaluate", source.err[1])>>]
    ELSE AllocationSet(r, values, calculate(r, source.v))

\* AllocationRule.Evaluate (buildup_test.go:365-382): the values it leaves
\* and the error
AllocationRuleEvaluate(r, values) ==
    AllocationOn(r, values, GetFloat64(values, AllocSourceKey))

\* NewBuildup (assignment.go:264-300): <<rule>>, or <<>> for an error
NewBuildup(cfg) ==
    IF cfg.ID = "" \/ cfg.Buildup = "" \/ (cfg.Source = "" /\ cfg.Operation # BuildupCount)
    THEN <<>>
    ELSE <<[id |-> cfg.ID, buildup |-> cfg.Buildup, operation |-> cfg.Operation,
            source |-> cfg.Source,
            initial |-> IF cfg.Initial # 0 THEN cfg.Initial
                        ELSE CASE cfg.Operation = BuildupMin -> PosInf
                               [] cfg.Operation = BuildupMax -> -PosInf
                               [] cfg.Operation = BuildupProduct -> 1
                               [] OTHER -> 0,
            target |-> cfg.Target]>>

\* EvalContext.GetOrCreateBuildup (expr_test.go:539-552) on the map
GetOrCreateBuildup(buildups, key, op, initial) ==
    IF key \in DOMAIN buildups THEN buildups
    ELSE MapPut(buildups, key, NewBuildupObject(key, op, initial))

\* Buildup.Add (assignment.go:174-204) by one goroutine
BuildupAdd(b, v) ==
    [b EXCEPT !.count = @ + 1,
              !.value = AddValueOf(b.Operation, b.count + 1, @, v),
              !.adds = Append(@, v)]

\* if r.target != "" { evalCtx.Set(r.target, b.Current()) }
\* (assignment.go:329-331)
BuildupRuleSet(r, values, buildups) ==
    [values |-> IF r.target # ""
                THEN MapPut(values, r.target, Val("float64", CurrentOf(buildups[r.buildup])))
                ELSE values,
     buildups |-> buildups, err |-> <<>>]

\* b := evalCtx.GetOrCreateBuildup(...); b.Add(value) (assignment.go:326-327)
BuildupRuleAdd(r, values, buildups, value) ==
    BuildupRuleSet(r, values, [buildups EXCEPT ![r.buildup] = BuildupAdd(@, value)])

\* Mutant: the buildup is created before the source is read
BuildupRuleOn_CreateFirst(r, values, buildups, value) ==
    IF value.err # <<>>
    THEN [values |-> values,
          buildups |-> GetOrCreateBuildup(buildups, r.buildup, r.operation, r.initial),
          err |-> <<NewRuleError(r.id, "buildup", "evaluate", value.err[1])>>]
    ELSE BuildupRuleAdd(r, values,
                        GetOrCreateBuildup(buildups, r.buildup, r.operation, r.initial),
                        value.v)

\* BuildupRule.Evaluate (assignment.go:313-335) after the read of the source
BuildupRuleOn(r, values, buildups, value) ==
    IF value.err # <<>>
    THEN [values |-> values, buildups |-> buildups,
          err |-> <<NewRuleError(r.id, "buildup", "evaluate", value.err[1])>>]
    ELSE BuildupRuleAdd(r, values,
                        GetOrCreateBuildup(buildups, r.buildup, r.operation, r.initial),
                        value.v)

\* BuildupRule.Evaluate (assignment.go:313-335): the values and buildups it
\* leaves and the error
BuildupRuleEvaluate(r, values, buildups) ==
    BuildupRuleOn(r, values, buildups,
                  IF r.operation = BuildupCount THEN [v |-> 1, err |-> <<>>]
                  ELSE GetFloat64(values, r.source))

\* The contexts the rules are evaluated on: a and b as an expression reads
\* them
RuleValueMaps ==
    {(<<"a">> :> va) @@ (<<"b">> :> vb) :
        va \in {Float(Frac(6, 1)), Val("uint8", Frac(6, 1)), Str(<<"s">>)},
        vb \in {Float(Frac(0, 1)), Float(Frac(4, 1))}}
    \cup {(<<"b">> :> Float(Frac(4, 1)))}

\* What the context of an allocation rule holds under the source key
AllocSourceValues ==
    {Val("float64", x) : x \in {Fin(0), Fin(1000), Fin(10005), Fin(100000), Inf(1), NaN}}
    \cup {Val("string", 0)}

\* The allocation rules of the contexts: the targets of TestAllocation and of
\* TestAllocationFixed (README.md:229-238, 264-297), scaled down, and weights
\* that are all zero
RuleAllocations ==
    {NewAllocation(cfg)[1] :
        cfg \in {c \in [Strategy : AllocationStrategies,
                        Targets : {<<70, 30>>, <<1, 2>>, <<0, 0>>},
                        Remainder : {"", RemainderKey},
                        Precision : {0, 1}] : NewAllocation(c) # <<>>}}

BuildupSourceKey == "amount"

BuildupConfigs ==
    [ID : {"", "b"}, Buildup : {"", "total"}, Operation : BuildupOperations,
     Source : {"", BuildupSourceKey}, Initial : Initials, Target : {"", "x"}]

BuildupSourceValues == {Val("float64", 2), Val("int", 3), Val("string", 0)}

RuleKinds == {"assignment", "formula", "lookup", "allocation", "buildup"}

\* A rule of the variant kind and the context it is first evaluated on
RuleCalls(kind) ==
  CASE kind = "assignment" ->
    {[kind |-> "assignment", rule |-> NewAssignment(cfg).rule[1], values |-> values,
      lookups |-> {}] :
        cfg \in {c \in AssignmentConfigs : NewAssignment(c).err = <<>>},
        values \in {(<<"b">> :> Float(Frac(4, 1)))}}
  [] kind = "formula" ->
    {[kind |-> "formula", rule |-> NewFormula(cfg).rule[1], values |-> values,
           lookups |-> {}] :
        cfg \in {c \in FormulaConfigs : NewFormula(c).err = <<>>},
        values \in RuleValueMaps}
  [] kind = "lookup" ->
    {[kind |-> "lookup", rule |-> rule, values |-> values, lookups |-> lookups] :
        rule \in LookupRules,
        values \in {EmptyMap, "amount" :> Val("float64", 10), "amount" :> Val("string", 0)},
        lookups \in {{}, {"rates"}, LookupTables}}
  [] kind = "allocation" ->
    {[kind |-> "allocation", rule |-> rule, values |-> values, lookups |-> {}] :
        rule \in RuleAllocations,
        values \in {EmptyMap} \cup {AllocSourceKey :> v : v \in AllocSourceValues}}
  [] kind = "buildup" ->
    {[kind |-> "buildup", rule |-> NewBuildup(cfg)[1], values |-> values,
           lookups |-> {}] :
        cfg \in {c \in BuildupConfigs : NewBuildup(c) # <<>>},
        values \in {EmptyMap} \cup {BuildupSourceKey :> v : v \in BuildupSourceValues}}

NoRuleCall ==
    [kind |-> "lookup", rule |-> CHOOSE rule \in LookupRules : TRUE, values |-> EmptyMap,
     lookups |-> {}]

\* NewEvalContext with the values set and the lookups registered; no rule
\* evaluated yet
RuleCtxInit(calls) ==
    \E call \in calls :
        rc = [kind |-> call.kind, rule |-> call.rule, values |-> call.values,
              lookups |-> call.lookups, buildups |-> EmptyMap, evals |-> 0, last |-> <<>>]

\* What the caller sets between two evaluations
RuleCtxSets(kind) ==
    CASE kind \in {"assignment", "formula"} ->
            {[key |-> <<"a">>, value |-> Float(Frac(6, 1))],
             [key |-> <<"a">>, value |-> Str(<<"s">>)],
             [key |-> <<"b">>, value |-> Float(Frac(0, 1))]}
      [] kind = "lookup" -> [key : {"amount"}, value : LookupCtxValues]
      [] kind = "allocation" -> [key : {AllocSourceKey}, value : AllocSourceValues]
      [] kind = "buildup" -> [key : {BuildupSourceKey}, value : BuildupSourceValues]

\* evalCtx.Set(key, value) by the caller, after an evaluation
RuleCtxSet(set) ==
    /\ rc.last # <<>> /\ rc.evals < MaxEvals
    /\ rc' = [rc EXCEPT !.values = MapPut(@, set.key, set.value), !.last = <<>>]
    /\ UNCHANGED exceptRule

\* The context after rule.Evaluate returned out; last keeps the context as it
\* was before the call and the error
RuleCtxAfter(out, buildups) ==
    [rc EXCEPT !.values = out.values, !.buildups = buildups, !.evals = @ + 1,
               !.last = <<[values |-> rc.values, buildups |-> rc.buildups,
                           err |-> out.err]>>]

CanEvaluate(kind) == rc.kind = kind /\ rc.last = <<>> /\ rc.evals < MaxEvals

\* AssignmentRule.Evaluate(ctx, evalCtx)
EvaluateAssignment ==
    /\ CanEvaluate("assignment")
    /\ rc' = RuleCtxAfter(AssignmentRuleEvaluate(rc.rule, rc.values), rc.buildups)
    /\ UNCHANGED exceptRule

\* FormulaRule.Evaluate(ctx, evalCtx)
EvaluateFormula ==
    /\ CanEvaluate("formula")
    /\ rc' = RuleCtxAfter(FormulaRuleEvaluate(rc.rule, rc.values), rc.buildups)
    /\ UNCHANGED exceptRule

\* LookupRule.Evaluate(ctx, evalCtx)
EvaluateLookup ==
    /\ CanEvaluate("lookup")
    /\ rc' = RuleCtxAfter(LookupRuleEvaluate(rc.rule, rc.values, rc.lookups), rc.buildups)
    /\ UNCHANGED exceptRule

\* AllocationRule.Evaluate(ctx, evalCtx)
EvaluateAllocation ==
    /\ CanEvaluate("allocation")
    /\ rc' = RuleCtxAfter(AllocationRuleEvaluate(rc.rule, rc.values), rc.buildups)
    /\ UNCHANGED exceptRule

\* The context after BuildupRule.Evaluate returned out
BuildupRuleAfter(out) == RuleCtxAfter(out, out.buildups)

\* BuildupRule.Evaluate(ctx, evalCtx)
EvaluateBuildup ==
    /\ CanEvaluate("buildup")
    /\ rc' = BuildupRuleAfter(BuildupRuleEvaluate(rc.rule, rc.values, rc.buildups))
    /\ UNCHANGED exceptRule

-----------------------------------------------------------------------------
(* SpecReentry: the locks Evaluate takes, and the calls a rule's function  *)
(* makes back into the engine and into the context being evaluated.        *)

\* The goroutines calling Evaluate, on one engine and one eval context
Evaluators == {1, 2}

\* What a rule's function calls: the engine (AddRule, RegisterLookup) or the
\* eval context it was handed (Set, Get, Halt, GetOrCreateBuildup)
ReentrantCalls == {"AddRule", "RegisterLookup", "Set", "Get", "Halt", "GetOrCreateBuildup"}

\* The calls that go to the engine and take e.mu.Lock() (cortex.go:146, 176)
EngineCalls == {"AddRule", "RegisterLookup"}

\* The calls that take the context's read lock; the others take its write
\* lock (context.go: Get is RLock, Set, Halt and GetOrCreateBuildup are Lock)
ReadCalls == {"Get"}

\* The names of the lookups the engine can hold: one registered before
\* Evaluate, one that a rule's function registers
ReentryLookups == {"L", "M"}

\* left: the rules of the snapshot still to run; k: the lookups still to copy
IdleEvaluator == [pc |-> "idle", left |-> 0, k |-> 0, op |-> ""]

\* sync.RWMutex.RLock and Lock by goroutine t
RLocked(mu, t) == [mu EXCEPT !.readers = @ \cup {t}]

Locked(mu, t) == [mu EXCEPT !.writer = t]

\* Whether goroutine t holds mu, for reading or for writing
Holds(mu, t) == mu.writer = t \/ t \in mu.readers

\* Mutant: the read lock of the engine is kept for the whole call
RUnlock_Kept(mu, t) == mu

\* sync.RWMutex.RUnlock by goroutine t
RUnlock(mu, t) == [mu EXCEPT !.readers = @ \ {t}]

\* sync.RWMutex.Unlock
WUnlock(mu) == [mu EXCEPT !.writer = NoThread]

\* An engine with count rules and one lookup, a context, nobody evaluating
ReentryInit(counts, shorts) ==
    \E count \in counts, short \in shorts :
       re = [emu |-> FreeMutex, cmu |-> FreeMutex, nrules |-> count,
             nlookups |-> IF count = 0 THEN 0 ELSE 1,
             halted |-> FALSE, ShortCircuit |-> short, evals |-> 0,
             g |-> [t \in Evaluators |-> IdleEvaluator]]

\* Evaluate is called (cortex.go:213-230): no lock is taken yet
ReEvaluate(t) ==
    /\ re.g[t].pc = "idle"
    /\ re.evals < MaxEvals
    /\ re' = [re EXCEPT !.evals = @ + 1, !.g[t].pc = "rlock"]
    /\ UNCHANGED exceptReentry

\* e.mu.RLock() and rules := e.rules (cortex.go:233-234)
ReSnapshot(t) ==
    /\ re.g[t].pc = "rlock"
    /\ CanRLock(re.emu)
    /\ re' = [re EXCEPT !.emu = RLocked(@, t),
                        !.g[t] = [IdleEvaluator EXCEPT !.pc = "copy", !.left = re.nrules,
                                                       !.k = re.nlookups]]
    /\ UNCHANGED exceptReentry

\* One evalCtx.RegisterLookup(lookup) of the copy loop (cortex.go:235-237):
\* the context's write lock is taken and released inside the call
\* (context.go RegisterLookup), under the engine's read lock
ReCopyLookup(t) ==
    /\ re.g[t].pc = "copy"
    /\ re.g[t].k > 0
    /\ CanLock(re.cmu)
    /\ re' = [re EXCEPT !.g[t].k = @ - 1]
    /\ UNCHANGED exceptReentry

\* e.mu.RUnlock() (cortex.go:238), before the loop over the rules
ReRUnlock(t) ==
    /\ re.g[t].pc = "copy"
    /\ re.g[t].k = 0
    /\ re' = [re EXCEPT !.emu = RUnlock(@, t), !.g[t].pc = "loop"]
    /\ UNCHANGED exceptReentry

\* The top of the loop (cortex.go:242-256): past the last rule of the
\* snapshot the loop ends; evalCtx.IsHalted() is called only under
\* ShortCircuit and takes the context's read lock for the read; otherwise
\* evaluateRule calls the rule, whose function is about to call op
ReLoop(t, op) ==
    /\ re.g[t].pc = "loop"
    /\ IF re.g[t].left = 0
       THEN re' = [re EXCEPT !.g[t].pc = "result"]
       ELSE IF re.ShortCircuit
       THEN /\ CanRLock(re.cmu)
            /\ re' = [re EXCEPT !.g[t].pc = IF re.halted THEN "result" ELSE "rule",
                                !.g[t].left = IF re.halted THEN 0 ELSE @,
                                !.g[t].op = IF re.halted THEN "" ELSE op]
       ELSE re' = [re EXCEPT !.g[t].pc = "rule", !.g[t].op = op]
    /\ UNCHANGED exceptReentry

\* The rule's function makes its call, which takes the lock it needs:
\* e.mu.Lock() in AddRule and RegisterLookup (cortex.go:146, 176), the
\* context's lock in the EvalContext operations
ReCallLock(t) ==
    LET op == re.g[t].op IN
    /\ re.g[t].pc = "rule"
    /\ IF op \in EngineCalls
       THEN /\ CanLock(re.emu)
            /\ re' = [re EXCEPT !.emu = Locked(@, t), !.g[t].pc = "call"]
       ELSE IF op \in ReadCalls
       THEN /\ CanRLock(re.cmu)
            /\ re' = [re EXCEPT !.cmu = RLocked(@, t), !.g[t].pc = "call"]
       ELSE /\ CanLock(re.cmu)
            /\ re' = [re EXCEPT !.cmu = Locked(@, t), !.g[t].pc = "call"]
    /\ UNCHANGED exceptReentry

\* The call does its work and releases its lock (the deferred Unlock): a
\* rule with a fresh id is appended while the list has room, a lookup with
\* a fresh name is registered, Halt sets the halt flag
ReCallUnlock(t) ==
    LET op == re.g[t].op IN
    /\ re.g[t].pc = "call"
    /\ re' = [re EXCEPT
                !.emu = IF op \in EngineCalls THEN WUnlock(@) ELSE @,
                !.cmu = IF op \in EngineCalls THEN @
                        ELSE IF op \in ReadCalls THEN RUnlock(@, t) ELSE WUnlock(@),
                !.nrules = IF op = "AddRule" /\ @ < MaxRuleList THEN @ + 1 ELSE @,
                !.nlookups = IF op = "RegisterLookup" /\ @ < Cardinality(ReentryLookups)
                             THEN @ + 1 ELSE @,
                !.halted = @ \/ op = "Halt",
                !.g[t].pc = "ruleEnd"]
    /\ UNCHANGED exceptReentry

\* The rule has returned: incErrors or incRulesEvaluated, atomic counters
\* that take no lock (cortex.go:259-283, context.go:592-599), then the
\* next rule
ReRuleEnd(t) ==
    /\ re.g[t].pc = "ruleEnd"
    /\ re' = [re EXCEPT !.g[t].pc = "loop", !.g[t].left = @ - 1, !.g[t].op = ""]
    /\ UNCHANGED exceptReentry

\* newResult reads IsHalted and HaltedBy, each under the context's read
\* lock, and Evaluate returns (cortex.go:286-297)
ReResult(t) ==
    /\ re.g[t].pc = "result"
    /\ CanRLock(re.cmu)
    /\ re' = [re EXCEPT !.g[t] = IdleEvaluator]
    /\ UNCHANGED exceptReentry

\* The steps of goroutine t
ReStep(t) ==
    \/ ReEvaluate(t)
    \/ ReSnapshot(t)
    \/ ReCopyLookup(t)
    \/ ReRUnlock(t)
    \/ \E op \in ReentrantCalls : ReLoop(t, op)
    \/ ReCallLock(t)
    \/ ReCallUnlock(t)
    \/ ReRuleEnd(t)
    \/ ReResult(t)

-----------------------------------------------------------------------------
(* SpecTrace: the spans Evaluate and evaluateRule start on the Tracer and  *)
(* the calls of the functions that end them.                               *)

SpanEvaluate == "cortex.evaluate"
SpanRule == "cortex.rule"

\* ctx.Err() once ctx.Done() has fired
CtxErr == "context deadline exceeded"

\* What a rule does when it is evaluated: return nil, return an error, or
\* halt the context and return nil
Outcomes == {"ok", "fail", "halt"}

\* The error a rule with this outcome returns ("" is nil)
OutcomeErr(o) == IF o = "fail" THEN ErrIntentional ELSE ""

\* Tracer.Start(ctx, name, ...): a span that has not been ended; rule is
\* the position of the rule the span is for, 0 for the span of the call
StartSpan(spans, name, rule) ==
    Append(spans, [name |-> name, rule |-> rule, ended |-> 0, err |-> ""])

\* Mutant: the function Start returned is not called
EndSpan_Never(spans, k, err) == spans

\* The function Start returned for span k is called with err
EndSpan(spans, k, err) ==
    [spans EXCEPT ![k] = [@ EXCEPT !.ended = @ + 1, !.err = err]]

\* An engine with these rules and this configuration, an eval context that
\* is not halted, no Evaluate call yet
TraceInit(lists, modes, shorts) ==
    \E l \in lists, mode \in modes, short \in shorts :
       tr = [rules |-> l, Mode |-> mode, ShortCircuit |-> short, closed |-> FALSE,
             halted |-> FALSE, pc |-> "idle", i |-> 0, ctxDone |-> FALSE,
             spans |-> <<>>, exit |-> "", ret |-> ""]

\* Close (cortex.go:317-323)
TraceClose ==
    /\ tr.pc = "idle"
    /\ ~tr.closed
    /\ tr' = [tr EXCEPT !.closed = TRUE]
    /\ UNCHANGED exceptTrace

\* Evaluate up to the loop (cortex.go:213-241): the closed and nil checks
\* return before any span is started; otherwise the span of the call is
\* started
TraceEvaluate(nilCtx) ==
    /\ tr.pc = "idle"
    /\ tr' = IF tr.closed
             THEN [tr EXCEPT !.spans = <<>>, !.exit = "closed", !.ret = ErrEngineClosed]
             ELSE IF nilCtx
             THEN [tr EXCEPT !.spans = <<>>, !.exit = "nil", !.ret = ErrNilContext]
             ELSE [tr EXCEPT !.pc = "loop", !.i = 1, !.ctxDone = FALSE, !.exit = "",
                             !.ret = "", !.spans = StartSpan(<<>>, SpanEvaluate, 0)]
    /\ UNCHANGED exceptTrace

\* The deadline of the call's context passes, or its parent is cancelled
TraceCancel ==
    /\ tr.pc # "idle"
    /\ ~tr.ctxDone
    /\ tr' = [tr EXCEPT !.ctxDone = TRUE]
    /\ UNCHANGED exceptTrace

\* The top of an iteration (cortex.go:243-259, 301): the timeout exit ends
\* the span of the call with ctx.Err(); the halt check breaks out of the
\* loop; otherwise evaluateRule starts the span of the rule.  After the
\* last rule, and after a break, endTrace(nil) (cortex.go:286-287).
TraceLoop ==
    /\ tr.pc = "loop"
    /\ tr' = IF tr.i > Len(tr.rules)
             THEN [tr EXCEPT !.pc = "idle", !.exit = "end", !.ret = "",
                             !.spans = EndSpan(@, 1, "")]
             ELSE IF tr.ctxDone
             THEN [tr EXCEPT !.pc = "idle", !.exit = "timeout", !.ret = ErrTimeout,
                             !.spans = EndSpan(@, 1, CtxErr)]
             ELSE IF tr.ShortCircuit /\ tr.halted
             THEN [tr EXCEPT !.pc = "idle", !.exit = "halt", !.ret = "",
                             !.spans = EndSpan(@, 1, "")]
             ELSE [tr EXCEPT !.pc = "rule", !.spans = StartSpan(@, SpanRule, tr.i)]
    /\ UNCHANGED exceptTrace

\* rule.Evaluate returns and evaluateRule ends the span of the rule with
\* the error (cortex.go:304-307); then the error handling of the loop
\* (cortex.go:260-283): under fail-fast the span of the call is ended with
\* the rule's error and Evaluate returns it
TraceRule ==
    LET o == tr.rules[tr.i]
        err == OutcomeErr(o)
        ended == EndSpan(tr.spans, Len(tr.spans), err)
    IN
    /\ tr.pc = "rule"
    /\ tr' = IF err # "" /\ tr.Mode = ModeFailFast
             THEN [tr EXCEPT !.pc = "idle", !.exit = "failfast", !.ret = err,
                             !.spans = EndSpan(ended, 1, err)]
             ELSE [tr EXCEPT !.pc = "loop", !.i = @ + 1, !.spans = ended,
                             !.halted = @ \/ o = "halt"]
    /\ UNCHANGED exceptTrace

-----------------------------------------------------------------------------
(* SpecRegistry: AddRules and RegisterLookups, one element per step, the   *)
(* lookups a caller registers on an eval context, and the copy of the      *)
(* engine's lookups into the context at the start of Evaluate.             *)

BatchRuleIDs == {"a", "b"}

\* The names lookups are registered under, and the tables: two tables can
\* carry the same name
RegistryNames == {"L", "M"}

RegistryTables == {"t1", "t2"}

\* No table under a name
NoTable == ""

RegistryLookups ==
    {[name |-> "L", table |-> "t1"], [name |-> "L", table |-> "t2"],
     [name |-> "M", table |-> "t1"]}

\* An empty map[string]Lookup
NoLookups == [n \in RegistryNames |-> NoTable]

NoBatch == [op |-> "", list |-> <<>>, pos |-> 0, pc |-> "idle", err |-> "",
            rules0 |-> <<>>, lookups0 |-> NoLookups, ctx0 |-> NoLookups]

\* The error AddRule(rule) returns on engine e, "" for nil (cortex.go:141-159)
AddRuleErr(e, id) ==
    IF e.closed THEN ErrEngineClosed
    ELSE IF id \in e.ruleIDs THEN ErrDuplicateRule
    ELSE IF e.MaxRules > 0 /\ Len(e.rules) >= e.MaxRules THEN ErrInvalidRule
    ELSE ""

\* The engine after AddRule(rule)
AddRuleOn(e, id) ==
    IF AddRuleErr(e, id) # "" THEN e
    ELSE [e EXCEPT !.rules = Append(@, id), !.ruleIDs = @ \cup {id}]

\* The error RegisterLookup(lookup) returns on engine e (cortex.go:172-186)
RegisterLookupErr(e, lookup) ==
    IF e.closed THEN ErrEngineClosed
    ELSE IF e.lookups[lookup.name] # NoTable THEN ErrDuplicateLookup
    ELSE ""

\* The engine after RegisterLookup(lookup)
RegisterLookupOn(e, lookup) ==
    IF RegisterLookupErr(e, lookup) # "" THEN e
    ELSE [e EXCEPT !.lookups[lookup.name] = lookup.table]

\* Mutant: the loop goes on after an element was rejected
BatchStops_Never(err) == FALSE

\* if err := e.AddRule(rule); err != nil { return err } (cortex.go:163-166,
\* 190-193)
BatchStops(err) == err # ""

\* Mutant: the context keeps the lookup it has under a name
BindLookups_KeepOwn(ctx, lookups) ==
    [n \in RegistryNames |-> IF ctx[n] # NoTable THEN ctx[n] ELSE lookups[n]]

\* for _, lookup := range e.lookups { evalCtx.RegisterLookup(lookup) }
\* (cortex.go:235-237), RegisterLookup storing under lookup.Name()
\* (context.go:512-516)
BindLookups(ctx, lookups) ==
    [n \in RegistryNames |-> IF lookups[n] # NoTable THEN lookups[n] ELSE ctx[n]]

\* EvalContext.Lookup(tableName, key) up to the Get on the table
\* (context.go:519-528): the table found, or the error
LookupTable(ctx, name) ==
    IF ctx[name] = NoTable THEN [table |-> NoTable, err |-> ErrLookupNotFound]
    ELSE [table |-> ctx[name], err |-> ""]

\* New(name, config) and NewEvalContext(): nothing registered
RegistryInit(maxRules) ==
    \E m \in maxRules :
       eg = [rules |-> <<>>, ruleIDs |-> {}, lookups |-> NoLookups, closed |-> FALSE,
             MaxRules |-> m, ctx |-> NoLookups, call |-> NoBatch]

\* A caller begins op on list: AddRules(rules...) or RegisterLookups(lookups...)
BatchBegin(op, list) ==
    /\ eg.call.pc = "idle"
    /\ eg' = [eg EXCEPT !.call = [NoBatch EXCEPT !.op = op, !.list = list, !.pos = 1,
                                                  !.pc = "loop", !.rules0 = eg.rules,
                                                  !.lookups0 = eg.lookups]]
    /\ UNCHANGED exceptRegistry

\* AddRules(rules...) is called (cortex.go:162)
BatchAddRules(list) == BatchBegin("AddRules", list)

\* RegisterLookups(lookups...) is called (cortex.go:189)
BatchRegisterLookups(list) == BatchBegin("RegisterLookups", list)

\* One iteration of the loop of AddRules or RegisterLookups, or its return
\* nil after the last element (cortex.go:163-168, 190-195)
BatchStep ==
    LET c == eg.call
        el == c.list[c.pos]
        err == IF c.op = "AddRules" THEN AddRuleErr(eg, el) ELSE RegisterLookupErr(eg, el)
        after == IF c.op = "AddRules" THEN AddRuleOn(eg, el) ELSE RegisterLookupOn(eg, el)
    IN
    /\ c.pc = "loop"
    /\ eg' = IF c.pos > Len(c.list)
             THEN [eg EXCEPT !.call.pc = "idle"]
             ELSE IF BatchStops(err)
             THEN [after EXCEPT !.call.pc = "idle", !.call.err = err]
             ELSE [after EXCEPT !.call.pos = @ + 1]
    /\ UNCHANGED exceptRegistry

\* Close by another goroutine (cortex.go:317-320)
RegistryClose ==
    /\ ~eg.closed
    /\ eg' = [eg EXCEPT !.closed = TRUE]
    /\ UNCHANGED exceptRegistry

\* The caller registers a lookup on the eval context (context.go:512-516)
ContextRegisterLookup(lookup) ==
    /\ eg.call.pc = "idle"
    /\ eg' = [eg EXCEPT !.ctx[lookup.name] = lookup.table,
                        !.call = [NoBatch EXCEPT !.op = "CtxRegisterLookup"]]
    /\ UNCHANGED exceptRegistry

\* Evaluate(ctx, evalCtx) up to the loop (cortex.go:213-239)
RegistryEvaluate ==
    /\ eg.call.pc = "idle"
    /\ eg' = IF eg.closed
             THEN [eg EXCEPT !.call = [NoBatch EXCEPT !.op = "Evaluate", !.err = ErrEngineClosed,
                                                       !.ctx0 = eg.ctx]]
             ELSE [eg EXCEPT !.ctx = BindLookups(@, eg.lookups),
                             !.call = [NoBatch EXCEPT !.op = "Evaluate", !.ctx0 = eg.ctx,
                                                       !.lookups0 = eg.lookups]]
    /\ UNCHANGED exceptRegistry

\* New, cortex.go:97-111, and a fresh context to evaluate
EngineInit(cfgs) ==
    /\ rules = <<>>
    /\ ruleIDs = {}
    /\ closed = FALSE
    /\ config \in cfgs
    /\ ec = NewEvalContext
    /\ run = IdleRun
    /\ ctxDone = FALSE
    /\ logs = <<>>
    /\ hist = <<>>
    /\ evals = 0

\* The contexts the other specifications work on, as constructed
\* The rule and expression models at rest
RulesInit ==
    /\ LookupInit /\ RangeInit({TaxBrackets})
    /\ AllocInit({TestAllocation}, {<<Fin(0)>>})
    /\ ParseInit({<<"a">>})
    /\ NewRuleInit({NoNewRule})
    /\ RuleCtxInit({NoRuleCall})
    /\ ReentryInit({0}, {FALSE})
    /\ TraceInit({<<>>}, {ModeFailFast}, {FALSE})
    /\ RegistryInit({0})

ContextsInit ==
    /\ CtxInit /\ HaltInit /\ BuildupInit
    /\ FrameInit({1}, {FALSE})
    /\ ConcInit({0}, {FALSE})
    /\ RulesInit

Init == EngineInit(Configs) /\ ContextsInit

Next ==
    \/ \E rule \in RuleUniverse : AddRule(rule)
    \/ Close
    \/ \E nilCtx \in BOOLEAN : EvalStart(nilCtx)
    \/ EvalIter
    \/ EvalFinish
    \/ Cancel
    \/ ExternalHalt

Spec == Init /\ [][Next]_vars

-----------------------------------------------------------------------------
(* The goroutines on the contexts *)

InitCtx == EngineInit({DefaultConfig}) /\ ContextsInit

RacyResults == {<<>>} \cup {<<v>> : v \in SetValues}

NextCtx ==
    \/ \E t \in Threads, call \in Calls : Begin(t, call)
    \/ \E t \in Threads, fatal \in BOOLEAN, racyRet \in RacyResults : End(t, fatal, racyRet)

SpecCtx == InitCtx /\ [][NextCtx]_vars

-----------------------------------------------------------------------------
(* The goroutines on the halt fields *)

InitHalt == EngineInit({DefaultConfig}) /\ ContextsInit

NextHalt ==
    \/ \E t \in Threads, id \in HaltIds : HaltLock(t, id)
    \/ \E t \in Threads : HaltSetFlag(t)
    \/ \E t \in Threads : HaltSetBy(t)
    \/ \E nerr \in ErrorCounts : ResultSuccess(nerr)
    \/ ResultHaltedBy

SpecHalt == InitHalt /\ [][NextHalt]_vars

-----------------------------------------------------------------------------
(* The goroutines on the buildups *)

InitBuildup == EngineInit({DefaultConfig}) /\ ContextsInit

NextBuildup ==
    \/ \E t \in Threads, key \in BuildupKeys, op \in BuildupOperations, initial \in Initials :
          GetOrCreateLock(t, key, op, initial)
    \/ \E t \in Threads : GetOrCreateCheck(t)
    \/ \E t \in Threads : GetOrCreateInsert(t)
    \/ \E t \in Threads, b \in BuildupIds, v \in AddValues : AddLock(t, b, v)
    \/ \E t \in Threads : AddCount(t)
    \/ \E t \in Threads : AddValue(t)
    \/ \E t \in Threads, name \in {"Current", "Count"}, b \in BuildupIds : Read(t, name, b)
    \/ \E t \in Threads, b \in BuildupIds, initial \in Initials : Reset(t, b, initial)

SpecBuildup == InitBuildup /\ [][NextBuildup]_vars

-----------------------------------------------------------------------------
(* The caller on a context, its clone and a snapshot *)

InitFrame ==
    /\ EngineInit({DefaultConfig})
    /\ CtxInit /\ HaltInit /\ BuildupInit
    /\ FrameInit(Nanos, BOOLEAN)
    /\ ConcInit({0}, {FALSE})
    /\ RulesInit

NextFrame ==
    \/ \E c \in CtxIds, k \in FrameKeys, v \in FrameValues : CtxSet(c, k, v)
    \/ \E c \in CtxIds, k \in FrameKeys : CtxDelete(c, k)
    \/ \E c \in CtxIds, k \in MetadataKeys, v \in MetadataValues : CtxSetMetadata(c, k, v)
    \/ \E c \in CtxIds : CtxRegisterLookup(c)
    \/ \E c \in CtxIds : CtxValues(c)
    \/ \E k \in FrameKeys, v \in FrameValues : CallerPut(k, v)
    \/ \E k \in FrameKeys : CallerDelete(k)
    \/ \E nano \in Nanos : CtxClone(nano)
    \/ \E c \in CtxIds : CtxUse(c)

SpecFrame == InitFrame /\ [][NextFrame]_vars

-----------------------------------------------------------------------------
(* The goroutines on the engine *)

InitConc ==
    /\ EngineInit({DefaultConfig})
    /\ CtxInit /\ HaltInit /\ BuildupInit
    /\ FrameInit({1}, {FALSE})
    /\ ConcInit(MaxRulesValues, BOOLEAN)
    /\ RulesInit

NextConc ==
    \/ \E t \in Threads, rule \in ConcRules : ConcAddRule(t, rule)
    \/ \E t \in Threads : ConcAddRuleCheck(t)
    \/ \E t \in Threads : ConcAddRuleAppend(t)
    \/ \E t \in Threads : ConcRegisterLookup(t)
    \/ \E t \in Threads : ConcRegisterLookupLocked(t)
    \/ \E t \in Threads : ConcClose(t)
    \/ \E t \in Threads, nilCtx \in BOOLEAN : ConcEvaluate(t, nilCtx)
    \/ \E t \in Threads : ConcEvalSnapshot(t)
    \/ \E t \in Threads, fatal \in BOOLEAN : ConcEvalCopied(t, fatal)
    \/ \E t \in Threads : ConcEvalIter(t)
    \/ \E t \in Threads : ConcEvalReturn(t)

SpecConc == InitConc /\ [][NextConc]_vars

InitLookup == EngineInit({DefaultConfig}) /\ ContextsInit

NextLookup ==
    \/ \E key \in LookupCtxKeys, value \in LookupCtxValues : LookupCtxSet(key, value)
    \/ \E table \in LookupTables : LookupCtxRegister(table)
    \/ \E rule \in LookupRules : LookupEvaluate(rule)

SpecLookup == InitLookup /\ [][NextLookup]_vars

InitRange ==
    /\ EngineInit({DefaultConfig})
    /\ CtxInit /\ HaltInit /\ BuildupInit
    /\ FrameInit({1}, {FALSE})
    /\ ConcInit({0}, {FALSE})
    /\ LookupInit /\ RangeInit(RangeLists)
    /\ AllocInit({TestAllocation}, {<<Fin(0)>>})
    /\ ParseInit({<<"a">>})
    /\ NewRuleInit({NoNewRule})
    /\ RuleCtxInit({NoRuleCall})
    /\ ReentryInit({0}, {FALSE})
    /\ TraceInit({<<>>}, {ModeFailFast}, {FALSE})
    /\ RegistryInit({0})

NextRange == \E key \in RangeKeys : RangeGet(key)

SpecRange == InitRange /\ [][NextRange]_vars

InitAlloc ==
    /\ EngineInit({DefaultConfig})
    /\ CtxInit /\ HaltInit /\ BuildupInit
    /\ FrameInit({1}, {FALSE})
    /\ ConcInit({0}, {FALSE})
    /\ LookupInit /\ RangeInit({TaxBrackets})
    /\ AllocInit(AllocationRules, AllocSources)
    /\ ParseInit({<<"a">>})
    /\ NewRuleInit({NoNewRule})
    /\ RuleCtxInit({NoRuleCall})
    /\ ReentryInit({0}, {FALSE})
    /\ TraceInit({<<>>}, {ModeFailFast}, {FALSE})
    /\ RegistryInit({0})

NextAlloc == AllocationEvaluate

SpecAlloc == InitAlloc /\ [][NextAlloc]_vars

-----------------------------------------------------------------------------
(* SpecParse: Compile and NewFormula on every short input string and on    *)
(* the inputs with two operators.                                          *)

InitParse ==
    /\ EngineInit({DefaultConfig})
    /\ CtxInit /\ HaltInit /\ BuildupInit
    /\ FrameInit({1}, {FALSE})
    /\ ConcInit({0}, {FALSE})
    /\ LookupInit /\ RangeInit({TaxBrackets})
    /\ AllocInit({TestAllocation}, {<<Fin(0)>>})
    /\ ParseInit(ParseInputs)
    /\ NewRuleInit({NoNewRule})
    /\ RuleCtxInit({NoRuleCall})
    /\ ReentryInit({0}, {FALSE})
    /\ TraceInit({<<>>}, {ModeFailFast}, {FALSE})
    /\ RegistryInit({0})

NextParse ==
    \/ ExprCompile
    \/ \E cfg \in FormulaConfigsOf(ex.input) : ExprNewFormula(cfg)

SpecParse == InitParse /\ [][NextParse]_vars

-----------------------------------------------------------------------------
(* SpecNew: NewAssignment and NewFormula on every configuration of a small *)
(* universe, and the rule returned evaluated once.                         *)

InitNew ==
    /\ EngineInit({DefaultConfig})
    /\ CtxInit /\ HaltInit /\ BuildupInit
    /\ FrameInit({1}, {FALSE})
    /\ ConcInit({0}, {FALSE})
    /\ LookupInit /\ RangeInit({TaxBrackets})
    /\ AllocInit({TestAllocation}, {<<Fin(0)>>})
    /\ ParseInit({<<"a">>})
    /\ NewRuleInit(NewRuleCalls)
    /\ RuleCtxInit({NoRuleCall})
    /\ ReentryInit({0}, {FALSE})
    /\ TraceInit({<<>>}, {ModeFailFast}, {FALSE})
    /\ RegistryInit({0})

NextNew ==
    \/ NewAssignmentCall
    \/ NewFormulaCall
    \/ \E values \in ValueMaps : NewRuleEvaluate(values)

SpecNew == InitNew /\ [][NextNew]_vars

-----------------------------------------------------------------------------
(* SpecRules: a rule of each of the five variants evaluated on one eval    *)
(* context up to MaxEvals times, the caller setting a value in between.    *)

InitRules ==
    /\ EngineInit({DefaultConfig})
    /\ CtxInit /\ HaltInit /\ BuildupInit
    /\ FrameInit({1}, {FALSE})
    /\ ConcInit({0}, {FALSE})
    /\ LookupInit /\ RangeInit({TaxBrackets})
    /\ AllocInit({TestAllocation}, {<<Fin(0)>>})
    /\ ParseInit({<<"a">>})
    /\ NewRuleInit({NoNewRule})
    /\ \E kind \in RuleKinds : RuleCtxInit(RuleCalls(kind))
    /\ ReentryInit({0}, {FALSE})
    /\ TraceInit({<<>>}, {ModeFailFast}, {FALSE})
    /\ RegistryInit({0})

NextRules ==
    \/ EvaluateAssignment
    \/ EvaluateFormula
    \/ EvaluateLookup
    \/ EvaluateAllocation
    \/ EvaluateBuildup
    \/ \E set \in RuleCtxSets(rc.kind) : RuleCtxSet(set)

SpecRules == InitRules /\ [][NextRules]_vars

-----------------------------------------------------------------------------
(* SpecEager: formula rules over expressions with &&, || and if, built and *)
(* evaluated on every context of ValueMaps.                                *)

InitEager ==
    /\ EngineInit({DefaultConfig})
    /\ CtxInit /\ HaltInit /\ BuildupInit
    /\ FrameInit({1}, {FALSE})
    /\ ConcInit({0}, {FALSE})
    /\ LookupInit /\ RangeInit({TaxBrackets})
    /\ AllocInit({TestAllocation}, {<<Fin(0)>>})
    /\ ParseInit({<<"a">>})
    /\ NewRuleInit(EagerCalls)
    /\ RuleCtxInit({NoRuleCall})
    /\ ReentryInit({0}, {FALSE})
    /\ TraceInit({<<>>}, {ModeFailFast}, {FALSE})
    /\ RegistryInit({0})

SpecEager == InitEager /\ [][NextNew]_vars

-----------------------------------------------------------------------------
(* Rules whose functions call back into the engine and the context *)

InitReentry ==
    /\ EngineInit({DefaultConfig})
    /\ CtxInit /\ HaltInit /\ BuildupInit
    /\ FrameInit({1}, {FALSE})
    /\ ConcInit({0}, {FALSE})
    /\ LookupInit /\ RangeInit({TaxBrackets})
    /\ AllocInit({TestAllocation}, {<<Fin(0)>>})
    /\ ParseInit({<<"a">>})
    /\ NewRuleInit({NoNewRule})
    /\ RuleCtxInit({NoRuleCall})
    /\ ReentryInit({1}, BOOLEAN)
    /\ TraceInit({<<>>}, {ModeFailFast}, {FALSE})
    /\ RegistryInit({0})

NextReentry == \E t \in Evaluators : ReStep(t)

SpecReentry == InitReentry /\ [][NextReentry]_vars

\* A goroutine that can take a step takes one: the Go scheduler runs every
\* runnable goroutine, and a goroutine blocked in Lock or RLock is woken
\* when the lock is released
SpecReentryLive == SpecReentry /\ \A t \in Evaluators : WF_vars(ReStep(t))

-----------------------------------------------------------------------------
(* The spans of Evaluate *)

InitTrace ==
    /\ EngineInit({DefaultConfig})
    /\ CtxInit /\ HaltInit /\ BuildupInit
    /\ FrameInit({1}, {FALSE})
    /\ ConcInit({0}, {FALSE})
    /\ LookupInit /\ RangeInit({TaxBrackets})
    /\ AllocInit({TestAllocation}, {<<Fin(0)>>})
    /\ ParseInit({<<"a">>})
    /\ NewRuleInit({NoNewRule})
    /\ RuleCtxInit({NoRuleCall})
    /\ ReentryInit({0}, {FALSE})
    /\ TraceInit(ListsUpTo(Outcomes, MaxRuleList), Modes, BOOLEAN)
    /\ RegistryInit({0})

NextTrace ==
    \/ TraceClose
    \/ \E nilCtx \in BOOLEAN : TraceEvaluate(nilCtx)
    \/ TraceCancel
    \/ TraceLoop
    \/ TraceRule

SpecTrace == InitTrace /\ [][NextTrace]_vars

-----------------------------------------------------------------------------
(* Batches of rules and lookups, and the lookups of a context *)

InitRegistry ==
    /\ EngineInit({DefaultConfig})
    /\ CtxInit /\ HaltInit /\ BuildupInit
    /\ FrameInit({1}, {FALSE})
    /\ ConcInit({0}, {FALSE})
    /\ LookupInit /\ RangeInit({TaxBrackets})
    /\ AllocInit({TestAllocation}, {<<Fin(0)>>})
    /\ ParseInit({<<"a">>})
    /\ NewRuleInit({NoNewRule})
    /\ RuleCtxInit({NoRuleCall})
    /\ ReentryInit({0}, {FALSE})
    /\ TraceInit({<<>>}, {ModeFailFast}, {FALSE})
    /\ RegistryInit(MaxRulesValues)

NextRegistry ==
    \/ \E list \in ListsUpTo(BatchRuleIDs, MaxRuleList) : BatchAddRules(list)
    \/ \E list \in ListsUpTo(RegistryLookups, MaxRuleList) : BatchRegisterLookups(list)
    \/ BatchStep
    \/ RegistryClose

SpecRegistry == InitRegistry /\ [][NextRegistry]_vars

\* RegisterLookup(lookup) is RegisterLookups with one lookup
NextBind ==
    \/ \E lookup \in RegistryLookups : BatchRegisterLookups(<<lookup>>)
    \/ BatchStep
    \/ RegistryClose
    \/ \E lookup \in RegistryLookups : ContextRegisterLookup(lookup)
    \/ RegistryEvaluate

SpecBind == InitRegistry /\ [][NextBind]_vars

-----------------------------------------------------------------------------
(* Vocabulary of the properties *)

\* The call has returned after evaluation began (not EngineClosed, not NilContext)
Returned ==
    /\ run.pc = "returned"
    /\ ~ErrorsIs(run.err, ErrEngineClosed)
    /\ ~ErrorsIs(run.err, ErrNilContext)

\* Evaluation has begun: the call is in its loop or has returned from it
Began == run.pc \in {"loop", "break"} \/ Returned

TimedOut == Returned /\ ErrorsIs(run.err, ErrTimeout)

\* The call returned the error of a rule
RuleFailureReturned == Returned /\ run.err # <<>> /\ run.err[1].Phase = "evaluate"

Succeeded == {j \in 1..Len(hist) : hist[j].ok}

Failed == {j \in 1..Len(hist) : ~hist[j].ok}

\* The ids of the rules of hist that failed, in the order they ran
RECURSIVE FailedIds(_)
FailedIds(n) ==
    IF n = 0 THEN <<>>
    ELSE IF hist[n].ok THEN FailedIds(n - 1)
    ELSE Append(FailedIds(n - 1), hist[n].id)

ErrorIds(errors) == [j \in 1..Len(errors) |-> errors[j].RuleID]

\* The context holds what the executed rules left in it
ContextAsLeft ==
    ec.values = IF hist = <<>> THEN run.start.values ELSE hist[Len(hist)].left

-----------------------------------------------------------------------------
(* C1 *)

\* C1 as stated: under ModeFailFast, when the rule at position i fails,
\* Evaluate returns that error with a partial Result, no target of a rule at
\* a position > i appears in the context, and rules_evaluated equals the
\* number of rules before i that succeeded.
C1_FailFastAsStated ==
    (config.Mode = ModeFailFast /\ RuleFailureReturned) =>
        /\ run.result # <<>>
        /\ run.err = <<run.errors[Len(run.errors)]>>
        /\ \A j \in (run.i + 1)..Len(run.rules) : ~Has(ec, run.rules[j].target)
        /\ run.result[1].RulesEvaluated = Cardinality(Succeeded)

\* C1 amended: under ModeFailFast, as soon as a rule fails (at position i)
\* Evaluate returns that rule's error with a partial Result; exactly the
\* rules at positions 1..i were executed, so the context is as the rule at
\* position i left it, and rules_evaluated has grown during the call by the
\* number of rules before i that succeeded.
C1_FailFast ==
    (config.Mode = ModeFailFast /\ Began /\ run.errors # <<>>) =>
        /\ RuleFailureReturned
        /\ run.result # <<>>
        /\ run.err = <<run.errors[Len(run.errors)]>>
        /\ run.err[1].RuleID = run.rules[run.i].id
        /\ Len(hist) = run.i
        /\ ContextAsLeft
        /\ run.result[1].RulesEvaluated =
              run.start.rulesEvaluated + Cardinality(Succeeded)
        /\ Cardinality(Succeeded) = run.i - 1

\* A fail-fast stop with rules left unexecuted behind the failing one
C1_Witness ==
    /\ config.Mode = ModeFailFast
    /\ RuleFailureReturned
    /\ run.i = 2
    /\ Len(run.rules) = 3

-----------------------------------------------------------------------------
(* C2 *)

\* C2: within one Evaluate call the rules run one after another in the
\* order they were added to the engine, and what rule k left in the context
\* is what rule k+1 finds there.
C2_OrderAndVisibility ==
    Began =>
        /\ Len(run.rules) <= Len(rules)
        /\ \A j \in 1..Len(run.rules) : run.rules[j] = rules[j]
        /\ Len(hist) <= Len(run.rules)
        /\ \A j \in 1..Len(hist) : hist[j].id = run.rules[j].id
        /\ run.pc = "loop" => Len(hist) = run.i - 1
        /\ hist # <<>> => hist[1].seen = run.start.values
        /\ \A j \in 1..(Len(hist) - 1) : hist[j + 1].seen = hist[j].left
        /\ ContextAsLeft

\* Rule c (y := x) ran right after rule a (x := 1) and found its value
C2_Witness ==
    /\ Returned
    /\ Len(hist) = 3
    /\ hist[2].id = "a"
    /\ hist[3].id = "c"
    /\ hist[3].ok
    /\ ~("x" \in DOMAIN hist[2].seen)
    /\ Get(ec, "y") = <<1>>

-----------------------------------------------------------------------------
(* C3 *)

FreshContext(c) ==
    /\ c.rulesEvaluated = 0
    /\ c.errCount = 0
    /\ ~c.halted
    /\ c.values = EmptyMap

\* C3: under ModeCollectAll, for n rules run on a fresh context with no
\* halt and no timeout, every rule is attempted, the errors appear in rule
\* order, the failing rules are not counted as evaluated
\* (rules_evaluated + rules_failed = n), and Evaluate returns a nil error.
C3_CollectAll ==
    (/\ config.Mode = ModeCollectAll
     /\ Returned
     /\ FreshContext(run.start)
     /\ ~IsHalted(ec)
     /\ ~TimedOut) =>
        /\ Len(hist) = Len(run.rules)
        /\ run.err = <<>>
        /\ run.result # <<>>
        /\ ErrorIds(run.result[1].Errors) = FailedIds(Len(hist))
        /\ run.result[1].RulesFailed = Cardinality(Failed)
        /\ run.result[1].RulesEvaluated = Cardinality(Succeeded)
        /\ run.result[1].RulesEvaluated + run.result[1].RulesFailed = Len(run.rules)

\* Two failing formulas, then a succeeding assignment
C3_Witness ==
    /\ config.Mode = ModeCollectAll
    /\ Returned
    /\ FreshContext(run.start)
    /\ run.err = <<>>
    /\ Len(hist) = 3
    /\ ErrorIds(run.result[1].Errors) = <<"f", "c">>
    /\ run.result[1].RulesEvaluated = 1
    /\ Get(ec, "x") = <<1>>

-----------------------------------------------------------------------------
(* C4 *)

WithMode(mode) == [config EXCEPT !.Mode = mode]

\* The two modes give the same Result, context and counters
C4_SameOutcome ==
    (run.pc = "loop") =>
        LET a == EvalRun(State, WithMode(ModeCollectAll))
            b == EvalRun(State, WithMode(ModeContinueOnError))
        IN a.run.result = b.run.result /\ a.run.err = b.run.err /\ a.ec = b.ec

\* The log sink receives the rule errors under ContinueOnError and not
\* under CollectAll
C4_LogOnlyWhenContinueOnError ==
    /\ config.Mode = ModeContinueOnError => logs = ErrorIds(run.errors)
    /\ config.Mode = ModeCollectAll => logs = <<>>

\* C4 as stated: ModeContinueOnError yields the same Result, context state
\* and counters as ModeCollectAll, and the modes differ in that the log
\* sink receives each rule error under ContinueOnError and not under
\* CollectAll.
C4_ModesAsStated == C4_SameOutcome /\ C4_LogOnlyWhenContinueOnError

-----------------------------------------------------------------------------
(* C5 *)

\* C5: with short_circuit enabled no rule is started on a halted context:
\* no rule after the one during which Halt was called is evaluated, and a
\* context already halted when Evaluate starts has zero rules run on it.
C5_ShortCircuit ==
    (config.ShortCircuit /\ Began) =>
        /\ \A j \in 1..Len(hist) : ~hist[j].seenHalted
        /\ run.start.halted => hist = <<>>

\* Rule h halted the context and the rules behind it were not run
C5_Witness ==
    /\ config.ShortCircuit
    /\ Returned
    /\ run.result # <<>>
    /\ run.result[1].HaltedBy = "h"
    /\ hist # <<>>
    /\ hist[Len(hist)].id = "h"
    /\ Len(hist) < Len(run.rules)

\* A context halted before the call: no rule runs
C5_WitnessPreHalted ==
    /\ config.ShortCircuit
    /\ Returned
    /\ run.start.halted
    /\ Len(run.rules) >= 2
    /\ run.result # <<>>

-----------------------------------------------------------------------------
(* C6 *)

\* C6 as stated: once the cancellation source has fired, Evaluate returns
\* an error matching Timeout.
C6_TimeoutAsStated == (Returned /\ ctxDone) => ErrorsIs(run.err, ErrTimeout)

\* C6 amended: the driver checks the source before starting each rule; once
\* the source has fired no further rule is started, and an iteration that
\* finds it fired makes Evaluate return an error matching Timeout.  (A
\* source that fires after the last check, during the last rule or after
\* the break on halt, does not change what Evaluate returns.)
C6_Timeout ==
    [][/\ ctxDone => Len(hist') <= Len(hist)
       /\ (ctxDone /\ run.pc = "loop" /\ run.i <= Len(run.rules) /\ run' # run) =>
              (run'.pc = "returned" /\ ErrorsIs(run'.err, ErrTimeout))
       /\ (run.pc # "returned" /\ run'.pc = "returned" /\ ErrorsIs(run'.err, ErrTimeout)) =>
              (ctxDone /\ run.i <= Len(run.rules))]_vars

\* The source fired after one rule had run and with rules left to run
C6_Witness ==
    /\ TimedOut
    /\ Len(hist) = 1
    /\ Len(run.rules) = 3

-----------------------------------------------------------------------------
(* C7 *)

Unsuccessful == Returned /\ (run.err # <<>> \/ ~run.result[1].Success)

\* C7 as stated: every Evaluate call that ends unsuccessfully after
\* evaluation has begun (a rule failure in any mode, or a timeout) returns
\* a Result whose context is the eval context with what the prior rules
\* wrote.
C7_ResultAsStated ==
    Unsuccessful =>
        /\ run.result # <<>>
        /\ run.result[1].Context = ec.ID
        /\ ContextAsLeft

-----------------------------------------------------------------------------
(* C8 *)

\* C8 as stated: once halted the context stays halted and halted_by keeps
\* the id given by the first Halt call.
C8_FirstHalterAsStated ==
    [][ec.halted => (ec'.halted /\ ec'.haltedBy = ec.haltedBy)]_vars

-----------------------------------------------------------------------------
(* C9 *)

\* C9 as stated: no write to a map of an EvalContext overlaps another read
\* or write of that map, the lookup registry that Clone shares between the
\* original and its clone included.
C9_NoOverlapAsStated == \A t, u \in Threads : ~Overlap(t, u)

-----------------------------------------------------------------------------
(* C10 *)

AllDone == obs.calls = MaxCalls /\ \A t \in Threads : th[t].pc = "idle"

GetReturned(t) == th[t].pc = "idle" /\ th[t].call.name = "Get"

\* No access of a values map overlaps a write of it
C10_NoRaceOnValues ==
    \A t, u \in Threads : Overlap(t, u) => MapOf(th[t].call)[1] # "values"

\* Each Get returns not-found or one value that some Set wrote
C10_GetsValid ==
    \A t \in Threads :
        GetReturned(t) => (th[t].ret = <<>> \/ th[t].ret[1] \in obs.written)

\* C10 as stated: concurrent Set(k,_) and Get(k) calls on a shared context
\* never race, each Get returns not-found or one value that some Set wrote,
\* and at least one Get observes a post-write value.
C10_SetGetAsStated ==
    /\ C10_NoRaceOnValues
    /\ C10_GetsValid
    /\ (AllDone /\ obs.setDone /\ obs.getDone) => obs.getFound

\* C10 amended: concurrent Set(k,_) and Get(k) calls on a shared context
\* never race, each Get returns not-found or one value that some Set wrote,
\* and every Get that takes the lock after a Set has released it observes a
\* written value (nothing makes a Get run after a Set).
C10_SetGet ==
    /\ C10_NoRaceOnValues
    /\ C10_GetsValid
    /\ \A t \in Threads : (GetReturned(t) /\ th[t].afterSet) => th[t].ret # <<>>

\* A Get that waited for a Set to release the lock and then found its value,
\* while another Get had returned not-found
C10_Witness ==
    /\ obs.setDone
    /\ \E t \in Threads :
          /\ GetReturned(t)
          /\ th[t].call.ctx = Original
          /\ th[t].afterSet
          /\ th[t].ret # <<>>
    /\ \E u \in Threads : GetReturned(u) /\ th[u].ret = <<>>

-----------------------------------------------------------------------------
(* C11 *)

\* The halt fields are never seen half-written: whoever can take the read
\* lock finds halted set whenever haltedBy is non-empty
C11_FieldsCoherent == (CanRLock(hc.mu) /\ hc.haltedBy # "") => hc.halted

\* C11 as stated: readers of the halt state see a coherent pair; a Result
\* never reports Success = TRUE together with a non-empty HaltedBy, even
\* when another goroutine calls Halt while the Result is being assembled.
C11_CoherentResultAsStated ==
    /\ C11_FieldsCoherent
    /\ asm.result # <<>> =>
          (asm.result[1].HaltedBy # "" => ~asm.result[1].Success)

-----------------------------------------------------------------------------
(* Vocabulary of the buildup properties *)

RECURSIVE SumOf(_)
SumOf(seq) == IF seq = <<>> THEN 0 ELSE seq[1] + SumOf(Tail(seq))

RECURSIVE ProductOf(_)
ProductOf(seq) == IF seq = <<>> THEN 1 ELSE seq[1] * ProductOf(Tail(seq))

MinOf(seq) == CHOOSE m \in {seq[j] : j \in DOMAIN seq} : \A j \in DOMAIN seq : m <= seq[j]

MaxOf(seq) == CHOOSE m \in {seq[j] : j \in DOMAIN seq} : \A j \in DOMAIN seq : m >= seq[j]

\* No Add call is in progress on the buildup
AtRest(b) ==
    \A t \in Threads : bth[t].pc \in {"adding", "counted"} => bth[t].call.b # b

GetOrCreateReturned(t) ==
    bth[t].pc = "idle" /\ bth[t].call.name = "GetOrCreateBuildup"

-----------------------------------------------------------------------------
(* C12 *)

\* Every Buildup object ever created is the one the map holds under its
\* name, and every GetOrCreateBuildup call returned that one
C12_OneAccumulator ==
    /\ \A b \in BuildupIds :
          bh[b].Name \in DOMAIN bm.buildups /\ bm.buildups[bh[b].Name] = b
    /\ \A t \in Threads :
          GetOrCreateReturned(t) => bth[t].ret = <<bm.buildups[bth[t].call.key]>>

\* A call that finds the key leaves the map and the buildups as they are
\* and returns the buildup found
C12_HitChangesNothing ==
    \A t \in Threads :
        (/\ bth[t].pc = "checking"
         /\ bth[t].call.key \in DOMAIN bm.buildups
         /\ bth'[t].pc # "checking") =>
            /\ bh' = bh
            /\ bm'.buildups = bm.buildups
            /\ bth'[t].ret = <<bm.buildups[bth[t].call.key]>>

\* C12: GetOrCreateBuildup checks and inserts atomically: any number of
\* concurrent calls for one key return the same accumulator, never two
\* distinct ones, and once a buildup exists later calls return it
\* unchanged, whatever operation and initial value they pass.
C12_GetOrCreateAtomic == []C12_OneAccumulator /\ [][C12_HitChangesNothing]_vars

\* Two goroutines called for the same key; one created the buildup, the
\* other found it although it passed another operation or initial value
C12_Witness ==
    \E t, u \in Threads :
        /\ t # u
        /\ GetOrCreateReturned(t) /\ GetOrCreateReturned(u)
        /\ bth[t].call.key = bth[u].call.key
        /\ ~bth[t].hit
        /\ bth[u].hit /\ bth[u].differs
        /\ bth[t].ret = bth[u].ret

-----------------------------------------------------------------------------
(* C13 *)

\* C13 as stated: for a buildup with operation sum, after the Add calls
\* v1..vn, Current() = v1+...+vn and Count() = n; for operation count,
\* Current() = n whatever the values.
C13_SumCountAsStated ==
    \A b \in BuildupIds :
        AtRest(b) =>
            /\ bh[b].Operation = BuildupSum =>
                  /\ CurrentOf(bh[b]) = [num |-> SumOf(bh[b].adds), den |-> 1]
                  /\ bh[b].count = Len(bh[b].adds)
            /\ (bh[b].Operation = BuildupCount /\ bh[b].adds # <<>>) =>
                  CurrentOf(bh[b]) = [num |-> Len(bh[b].adds), den |-> 1]

\* C13 amended: for a buildup with operation sum, created or last reset
\* with the value initial, after the Add calls v1..vn, Current() =
\* initial + v1+...+vn and Count() = n; for operation count and n >= 1,
\* Current() = n whatever the values and the initial value.
C13_SumCount ==
    \A b \in BuildupIds :
        AtRest(b) =>
            /\ bh[b].Operation = BuildupSum =>
                  /\ CurrentOf(bh[b]) =
                        [num |-> bh[b].created + SumOf(bh[b].adds), den |-> 1]
                  /\ bh[b].count = Len(bh[b].adds)
            /\ (bh[b].Operation = BuildupCount /\ bh[b].adds # <<>>) =>
                  /\ CurrentOf(bh[b]) = [num |-> Len(bh[b].adds), den |-> 1]
                  /\ bh[b].count = Len(bh[b].adds)

\* A sum created with 5 that received 2 and 3
C13_Witness ==
    \E b \in BuildupIds :
        /\ AtRest(b)
        /\ bh[b].Operation = BuildupSum
        /\ bh[b].created = 5
        /\ bh[b].adds = <<2, 3>>
        /\ bh[b].value = 10

\* A count created with 5 that received two values
C13_WitnessCount ==
    \E b \in BuildupIds :
        /\ AtRest(b)
        /\ bh[b].Operation = BuildupCount
        /\ bh[b].created = 5
        /\ Len(bh[b].adds) = 2
        /\ bh[b].value = 2

-----------------------------------------------------------------------------
(* C14 *)

\* C14: Add and Current are synchronised by the buildup's own lock: when
\* several goroutines call Add on one buildup no update is lost (Count is
\* the number of Add calls since the buildup was created or reset and, for
\* sum, the value has grown by the total of the added values), and no
\* Current or Count call reads between the two writes of an Add.
C14_AddSynchronised ==
    /\ \A b \in BuildupIds :
          AtRest(b) =>
              /\ bh[b].count = Len(bh[b].adds)
              /\ bh[b].Operation \in {BuildupSum, BuildupAvg} =>
                    bh[b].value = bh[b].created + SumOf(bh[b].adds)
    /\ \A b \in BuildupIds :
          Cardinality({t \in Threads : bth[t].pc \in {"adding", "counted"}
                                        /\ bth[t].call.b = b}) <= 1
    /\ \A t \in Threads : ~bth[t].torn

\* One goroutine is inside Add, between its two writes, on an avg buildup
\* that another goroutine has added to and read
C14_Witness ==
    \E t, u \in Threads, b \in BuildupIds :
        /\ t # u
        /\ bth[t].pc = "counted" /\ bth[t].call.b = b
        /\ bh[b].Operation = BuildupAvg
        /\ bh[b].adds # <<>>
        /\ bth[u].pc = "idle" /\ bth[u].call.name = "Current"

-----------------------------------------------------------------------------
(* C15 *)

\* C15: for min, max and product the first Add after creation or Reset
\* sets the value to the added value and later Adds take the min, max or
\* product with it: after n >= 1 Adds Current() is the min, max or product
\* of exactly the added values; Reset(initial), like creation, leaves count
\* 0 and the value initial.
C15_MinMaxProduct ==
    \A b \in BuildupIds :
        AtRest(b) =>
            /\ bh[b].adds = <<>> =>
                  (bh[b].count = 0 /\ CurrentOf(bh[b]) = [num |-> bh[b].created, den |-> 1])
            /\ (bh[b].adds # <<>> /\ bh[b].Operation = BuildupMin) =>
                  CurrentOf(bh[b]) = [num |-> MinOf(bh[b].adds), den |-> 1]
            /\ (bh[b].adds # <<>> /\ bh[b].Operation = BuildupMax) =>
                  CurrentOf(bh[b]) = [num |-> MaxOf(bh[b].adds), den |-> 1]
            /\ (bh[b].adds # <<>> /\ bh[b].Operation = BuildupProduct) =>
                  CurrentOf(bh[b]) = [num |-> ProductOf(bh[b].adds), den |-> 1]

\* A max buildup created with 0, reset to 5, that then received 2 and 3
C15_Witness ==
    \E b \in BuildupIds :
        /\ AtRest(b)
        /\ bh[b].Operation = BuildupMax
        /\ bh[b].created = 5
        /\ bh[b].adds = <<2, 3>>
        /\ bh[b].value = 3
        /\ \E t \in Threads : bth[t].pc = "idle" /\ bth[t].call.name = "Reset"

-----------------------------------------------------------------------------
(* C16 *)

\* What Clone has just returned
C16_CloneAsNew ==
    flast.op = "Clone" =>
        /\ fc[TheClone].exists
        /\ fc[TheClone].ID # fc[Original].ID
        /\ ValuesOf(TheClone) = ValuesOf(Original)
        /\ MetadataOf(TheClone) = MetadataOf(Original)
        /\ fc[TheClone].lookups = fc[Original].lookups
        /\ fc[TheClone].buildups = {}
        /\ fc[TheClone].rulesEvaluated = 0
        /\ fc[TheClone].errCount = 0
        /\ ~fc[TheClone].halted
        /\ fc[TheClone].haltedBy = ""

\* Set, Delete and SetMetadata on one context leave the values and the
\* metadata of the other as they are; RegisterLookup on one is seen by both
C16_CloneIndependent ==
    \A c, d \in CtxIds :
        (c # d /\ flast'.ctx = c /\ fc[d].exists /\ flast' # flast) =>
            /\ flast'.op \in {"Set", "Delete", "SetMetadata"} =>
                  /\ fheap'[fc'[d].values] = fheap[fc[d].values]
                  /\ fheap'[fc'[d].metadata] = fheap[fc[d].metadata]
            /\ flast'.op = "RegisterLookup" =>
                  /\ fheap'[fc'[d].lookups] = fheap'[fc'[c].lookups]
                  /\ LookupName \in DOMAIN fheap'[fc'[d].lookups]

\* C16: Clone produces a context with a fresh id different from the
\* original's, copies of the values and metadata (later Set, Delete and
\* SetMetadata on either context do not affect the other), the same shared
\* lookup registry, no buildups, both counters at zero and a non-halted
\* state.
C16_Clone == []C16_CloneAsNew /\ [][C16_CloneIndependent]_vars

\* A used, halted original with a value and a buildup was cloned, and a
\* value set on the clone afterwards is not in the original
C16_Witness ==
    /\ fc[TheClone].exists
    /\ fc[Original].halted /\ fc[Original].rulesEvaluated = 1
    /\ fc[Original].buildups # {}
    /\ ~fc[TheClone].halted
    /\ flast.op = "Set" /\ flast.ctx = TheClone
    /\ ValuesOf(Original) = MapPut(EmptyMap, "x", 1)
    /\ ValuesOf(TheClone) = MapPut(EmptyMap, "x", 2)

\* A lookup registered on the clone is found through the original
C16_WitnessRegistry ==
    /\ flast.op = "RegisterLookup" /\ flast.ctx = TheClone
    /\ LookupName \in DOMAIN LookupsOf(Original)

-----------------------------------------------------------------------------
(* C17 *)

\* What Values has just returned holds the entries of the context
C17_SnapshotAsTaken ==
    flast.op = "Values" => (fsnap # NoRef /\ fheap[fsnap] = ValuesOf(flast.ctx))

\* The caller's changes to the returned map leave every context as it is,
\* and Set and Delete on a context leave the returned map as it is
C17_SnapshotIndependent ==
    /\ (flast' # flast /\ flast'.op \in {"CallerPut", "CallerDelete"}) =>
          \A c \in CtxIds :
              fc[c].exists => fheap'[fc'[c].values] = fheap[fc[c].values]
    /\ (flast' # flast /\ flast'.op \in {"Set", "Delete"} /\ fsnap # NoRef) =>
          fheap'[fsnap'] = fheap[fsnap]

\* C17: Values() returns a snapshot copy: adding, overwriting or deleting
\* entries in the returned map never changes what Get, Has or Keys report
\* on the live context, and later Set and Delete on the context never
\* change a map returned earlier.
C17_ValuesSnapshot == []C17_SnapshotAsTaken /\ [][C17_SnapshotIndependent]_vars

\* The caller overwrote x in the map returned by Values on the original,
\* which still holds the value set before
C17_Witness ==
    /\ flast.op = "CallerPut"
    /\ fsnap # NoRef
    /\ fheap[fsnap] = MapPut(EmptyMap, "x", 2)
    /\ ValuesOf(Original) = MapPut(EmptyMap, "x", 1)

\* The context deleted x after Values returned a map that keeps it
C17_WitnessLaterDelete ==
    /\ flast.op = "Delete" /\ flast.ctx = Original
    /\ fsnap # NoRef
    /\ fheap[fsnap] = MapPut(EmptyMap, "x", 1)
    /\ ValuesOf(Original) = EmptyMap

-----------------------------------------------------------------------------
(* C18 *)

\* The ids in the rule list are pairwise distinct, the id set holds the ids
\* of the listed rules, and the list is no longer than MaxRules allows
C18_RuleListWellFormed ==
    /\ \A i, j \in 1..Len(eng.rules) :
          i # j => eng.rules[i].id # eng.rules[j].id
    /\ eng.ruleIDs = {eng.rules[i].id : i \in 1..Len(eng.rules)}
    /\ eng.MaxRules > 0 => Len(eng.rules) <= eng.MaxRules

\* What AddRule does when it has the lock: DuplicateRule for an id already
\* registered, else InvalidRule for a full list, and a failing AddRule
\* leaves the list and the id set as they are
C18_AddRuleChecks ==
    \A t \in Threads :
        LET rule == gth[t].call.rule
            full == eng.MaxRules > 0 /\ Len(eng.rules) >= eng.MaxRules
        IN
        /\ (gth[t].pc = "addWait" /\ gth'[t].pc # "addWait") =>
              /\ rule.id \in eng.ruleIDs => gth'[t].ret = <<ErrDuplicateRule>>
              /\ (rule.id \notin eng.ruleIDs /\ full) => gth'[t].ret = <<ErrInvalidRule>>
              /\ (rule.id \notin eng.ruleIDs /\ ~full) => gth'[t].pc = "addAppend"
        /\ (gth'[t] # gth[t] /\ gth'[t].call.name = "AddRule" /\ gth'[t].ret # <<>>) =>
              (eng'.rules = eng.rules /\ eng'.ruleIDs = eng.ruleIDs)
        /\ (gth[t].pc = "addAppend" /\ gth'[t].pc = "idle") =>
              (gth'[t].ret = <<>> /\ eng'.rules = Append(eng.rules, rule))

\* C18: AddRule fails with DuplicateRule when a rule with the same id is
\* already registered and with InvalidRule when max_rules > 0 and the list
\* already holds max_rules rules, leaving the list unchanged; in every
\* reachable state, also under concurrent AddRule calls, the ids in the
\* rule list are pairwise distinct, the id set equals the ids of the listed
\* rules, and the list is no longer than max_rules when max_rules > 0.
C18_AddRule == []C18_RuleListWellFormed /\ [][C18_AddRuleChecks]_vars

\* With max_rules = 1 and one rule listed, one goroutine was refused a rule
\* with the listed id and another a rule with a new id
C18_Witness ==
    /\ eng.MaxRules = 1
    /\ Len(eng.rules) = 1
    /\ \E t, u \in Threads :
          /\ gth[t].pc = "idle" /\ gth[t].call.name = "AddRule"
          /\ gth[t].ret = <<ErrDuplicateRule>>
          /\ gth[u].pc = "idle" /\ gth[u].call.name = "AddRule"
          /\ gth[u].ret = <<ErrInvalidRule>>

-----------------------------------------------------------------------------
(* C19 *)

\* A call made on a closed engine fails with EngineClosed, an Evaluate call
\* without eval context with NilContext, and neither runs a rule
C19_ClosedCallFails ==
    \A t \in Threads :
        (gth[t].pc = "idle" /\ gth'[t] # gth[t]
         /\ gth'[t].call.name \in {"AddRule", "RegisterLookup", "Evaluate"}) =>
            /\ eng.closed =>
                  /\ gth'[t].pc = "idle"
                  /\ gth'[t].ret = <<ErrEngineClosed>>
                  /\ eng' = eng
                  /\ gev'[t].st.ec = gev[t].st.ec
            /\ (~eng.closed /\ gth'[t].call.nilCtx) =>
                  /\ gth'[t].pc = "idle"
                  /\ gth'[t].ret = <<ErrNilContext>>
                  /\ gev'[t].st.ec = gev[t].st.ec

C19_ClosedCallsFail == [][C19_ClosedCallFails]_vars

\* C19 as stated: once Close has returned the engine's rule list and its
\* lookup registry never change again, and the calls that failed with
\* EngineClosed or NilContext ran no rule.
C19_CloseAsStated ==
    /\ gobs.atClose # <<>> =>
          /\ eng.rules = gobs.atClose[1].rules
          /\ eng.lookups = gobs.atClose[1].lookups
    /\ \A t \in Threads :
          (gth[t].pc = "idle" /\ gth[t].ret \in {<<ErrEngineClosed>>, <<ErrNilContext>>}) =>
              gev[t].st.run = IdleRun

-----------------------------------------------------------------------------
(* C20 *)

IsPrefix(p, q) == Len(p) <= Len(q) /\ \A i \in 1..Len(p) : p[i] = q[i]

\* The rules a call evaluates are the rules listed when it took its
\* snapshot, in their order; no access of a call overlaps a write of
\* another; each call leaves its context and returns a Result as if it had
\* run alone
C20_CallsIndependent ==
    /\ ~gobs.fatal
    /\ \A t \in Threads :
          /\ ~gth[t].raced
          /\ gth[t].asAlone
          /\ gth[t].pc \in {"copying", "loop"} =>
                IsPrefix(gev[t].st.run.rules, eng.rules)

\* C20 as stated: Evaluate calls running concurrently on distinct eval
\* contexts, possibly concurrent with AddRule, each evaluate exactly the
\* rules registered when the call took its snapshot, in insertion order,
\* and each call's context and Result are as if the call had run alone.
C20_ConcurrentEvaluateAsStated == C20_CallsIndependent

\* The same for eval contexts none of which is a Clone of another
C20_IndependentUnlessCloned == ~gobs.cloned => C20_CallsIndependent

-----------------------------------------------------------------------------
(* C21 *)

\* The last LookupRule.Evaluate failed with the error kind
LookupFailedWith(kind) ==
    /\ ErrorsIs(lk.last[1].err, kind)
    /\ lk.values = lk.last[1].before

\* C21: a lookup rule's evaluate checks in this order: source key missing
\* from the context -> ValueNotFound; table not registered ->
\* LookupNotFound; key not found in the table and required -> KeyNotFound;
\* key not found and not required -> the configured default (possibly nil)
\* is written to target; key found -> the table value is written to target.
\* In each error case the context is left as it was.
C21_LookupOrder ==
    lk.last # NoLookupEval =>
      LET rule == lk.last[1].rule
          before == lk.last[1].before
          hit == TableGet(rule.table, before[rule.keySource])
      IN
      IF rule.keySource \notin DOMAIN before THEN LookupFailedWith(ErrValueNotFound)
      ELSE IF rule.table \notin lk.lookups THEN LookupFailedWith(ErrLookupNotFound)
      ELSE IF ~hit.found /\ rule.required THEN LookupFailedWith(ErrKeyNotFound)
      ELSE /\ lk.last[1].err = <<>>
           /\ DOMAIN lk.values = DOMAIN before \cup {rule.target}
           /\ \A k \in DOMAIN before \ {rule.target} : lk.values[k] = before[k]
           /\ lk.values[rule.target] = IF hit.found THEN hit.v ELSE rule.defaultVal

\* A rule that is not required and has no default missed its key in a
\* registered table and wrote nil over the target's earlier value
C21_Witness ==
    /\ lk.last # NoLookupEval
    /\ lk.last[1].err = <<>>
    /\ ~lk.last[1].rule.required
    /\ lk.last[1].rule.table \in lk.lookups
    /\ lk.last[1].rule.target = "rate"
    /\ "rate" \in DOMAIN lk.last[1].before
    /\ lk.last[1].before["rate"] # Nil
    /\ lk.values["rate"] = Nil

\* A required rule missed its key in a registered table
C21_WitnessKeyNotFound ==
    /\ lk.last # NoLookupEval
    /\ ErrorsIs(lk.last[1].err, ErrKeyNotFound)

-----------------------------------------------------------------------------
(* C22 *)

\* The entries whose half-open interval contains the key of the last Get
RangeHits ==
    {i \in 1..Len(rg.ranges) :
        /\ rg.key.t \in GoNumericTypes
        /\ rg.ranges[i].Min <= rg.key.n
        /\ rg.key.n < rg.ranges[i].Max}

\* The list is a chain [a0,a1), [a1,a2), ... of non-empty intervals
AdjacentRanges ==
    /\ \A i \in 1..Len(rg.ranges) : rg.ranges[i].Min < rg.ranges[i].Max
    /\ \A i \in 1..(Len(rg.ranges) - 1) : rg.ranges[i].Max = rg.ranges[i + 1].Min

\* C22: RangeLookup.Get returns the value of the first entry in declaration
\* order whose half-open interval [min, max) contains the key, and
\* not-found when no interval contains it or the key is not numeric; for
\* adjacent intervals a key equal to a boundary a_i gets the value of the
\* upper interval [a_i, a_{i+1}).
C22_RangeGet ==
    rg.res # <<>> =>
      /\ IF RangeHits = {} THEN ~rg.res[1].found
         ELSE /\ rg.res[1].found
              /\ \E i \in RangeHits :
                    /\ \A j \in RangeHits : i <= j
                    /\ rg.res[1].v = Val("float64", rg.ranges[i].Value)
      /\ AdjacentRanges =>
            \A i \in 1..Len(rg.ranges) :
                (rg.key.t \in GoNumericTypes /\ rg.key.n = rg.ranges[i].Min) =>
                    (rg.res[1].found /\ rg.res[1].v = Val("float64", rg.ranges[i].Value))

\* Get was called with the boundary shared by two adjacent intervals of
\* different value
C22_Witness ==
    /\ rg.res # <<>>
    /\ AdjacentRanges
    /\ Len(rg.ranges) = 2
    /\ rg.ranges[1].Value # rg.ranges[2].Value
    /\ rg.key = Val("float64", rg.ranges[2].Min)
    /\ rg.res[1].found

-----------------------------------------------------------------------------
(* C23 *)

\* Evaluate has run the rule on a source it could read
Allocated == al.out # <<>> /\ al.out[1].err = <<>>

ConservingStrategies ==
    {StrategyPercentage, StrategyWeighted, StrategyEqual, StrategyRatio}

\* The shares computed, added up, plus the remainder, are the source
Conserved ==
    FEq(FAdd(Total(al.out[1].allocations, Len(al.rule.targets)), al.out[1].remainder),
        al.source[1])

\* Every share is a whole number of 10^-precision and is in the context
\* under its target key
SharesRounded ==
    \A i \in 1..Len(al.rule.targets) :
        /\ al.out[1].allocations[i].k = "fin"
        /\ al.out[1].allocations[i].n % (Unit \div Pow10(al.rule.precision)) = 0
        /\ al.values[TargetKey(i)] = al.out[1].allocations[i]

ShareAmount(i) == IF al.rule.strategy = StrategyEqual THEN 1 ELSE al.rule.targets[i]

\* The source is finite and no product source * amount * 10^precision
\* leaves the range of float64
SourceInRange ==
    /\ al.source[1].k = "fin"
    /\ \A i \in 1..Len(al.rule.targets) :
          /\ Abs(al.source[1].n * ShareAmount(i)) <= FloatMax
          /\ Abs(al.source[1].n * ShareAmount(i)) * Pow10(al.rule.precision) <= FloatMax

-----------------------------------------------------------------------------
(* C27: precedence and associativity of the parser *)

\* The level of a binary operator in the precedence table, lowest first
TableLevel(op) ==
    CASE op = "||" -> 1
      [] op = "&&" -> 2
      [] op \in {"==", "!=", "<", "<=", ">", ">="} -> 3
      [] op \in {"+", "-"} -> 4
      [] op \in {"*", "/", "%"} -> 5

\* a o1 b o2 c read by the table, equal levels grouping to the left
TableTree(o1, o2) ==
    IF TableLevel(o1) >= TableLevel(o2)
    THEN BinaryExpr(o2, BinaryExpr(o1, Ident(<<"a">>), Ident(<<"b">>)), Ident(<<"c">>))
    ELSE BinaryExpr(o1, Ident(<<"a">>), BinaryExpr(o2, Ident(<<"b">>), Ident(<<"c">>)))

Parsed(node) == ex.out = <<[node |-> node, err |-> <<>>]>>

\* C27: the parser reads a o1 b o2 c by the precedence table (|| lowest,
\* then &&, the comparisons, + -, * / %), operators of one level grouping to
\* the left; a prefix ! or - binds tighter than every binary operator, on
\* either side of it, and applies to the prefix operator that follows it.
C27_Precedence ==
    ex.out # <<>> =>
        /\ \A o1, o2 \in BinaryOperators :
              ex.input = <<"a">> \o o1.chars \o <<"b">> \o o2.chars \o <<"c">>
              => Parsed(TableTree(o1.op, o2.op))
        /\ \A u \in UnaryOperators, o \in BinaryOperators :
              /\ ex.input = <<u, "a">> \o o.chars \o <<"b">>
                 => Parsed(BinaryExpr(o.op, UnaryExpr(u, Ident(<<"a">>)), Ident(<<"b">>)))
              /\ ex.input = <<"a">> \o o.chars \o <<u, "b">>
                 => Parsed(BinaryExpr(o.op, Ident(<<"a">>), UnaryExpr(u, Ident(<<"b">>))))
        /\ \A u1, u2 \in UnaryOperators :
              ex.input = <<u1, u2, "a">>
              => Parsed(UnaryExpr(u1, UnaryExpr(u2, Ident(<<"a">>))))

\* a - b - c has been parsed as (a - b) - c
C27_Witness ==
    /\ ex.input = <<"a", "-", "b", "-", "c">>
    /\ Parsed(BinaryExpr("-", BinaryExpr("-", Ident(<<"a">>), Ident(<<"b">>)), Ident(<<"c">>)))

\* a + b * c has been parsed as a + (b * c)
C27_WitnessProduct ==
    /\ ex.input = <<"a", "+", "b", "*", "c">>
    /\ Parsed(BinaryExpr("+", Ident(<<"a">>), BinaryExpr("*", Ident(<<"b">>), Ident(<<"c">>))))

\* a && b || c has been parsed as (a && b) || c
C27_WitnessOr ==
    /\ ex.input = <<"a", "&", "&", "b", "|", "|", "c">>
    /\ Parsed(BinaryExpr("||", BinaryExpr("&&", Ident(<<"a">>), Ident(<<"b">>)), Ident(<<"c">>)))

-----------------------------------------------------------------------------
(* C30: what Compile and NewFormula reject *)

\* The types of the tokens of an input, up to the end of the input
RECURSIVE TokenTypes(_)
TokenTypes(l) ==
    LET t == NextToken(l) IN
    IF t.tok.Type = "EOF" THEN <<>> ELSE <<t.tok.Type>> \o TokenTypes(t.lexer)

RECURSIVE IsExpression(_)
RECURSIVE IsPrimary(_)
RECURSIVE IsArguments(_)

\* The grammar of expressions over token types:
\*   expression = primary | prefix expression | expression binary expression
\*   primary    = NUMBER | STRING | BOOL | IDENT | ( expression )
\*              | IDENT ( ) | IDENT ( expression {, expression} )
IsExpression(ts) ==
    /\ Len(ts) >= 1
    /\ \/ IsPrimary(ts)
       \/ ts[1] \in UnaryOperators /\ IsExpression(Tail(ts))
       \/ \E k \in 2..(Len(ts) - 1) :
             /\ ts[k] \in {o.op : o \in BinaryOperators}
             /\ IsExpression(SubSeq(ts, 1, k - 1))
             /\ IsExpression(SubSeq(ts, k + 1, Len(ts)))

IsPrimary(ts) ==
    \/ Len(ts) = 1 /\ ts[1] \in {"NUMBER", "STRING", "BOOL", "IDENT"}
    \/ /\ Len(ts) >= 3 /\ ts[1] = "(" /\ ts[Len(ts)] = ")"
       /\ IsExpression(SubSeq(ts, 2, Len(ts) - 1))
    \/ /\ Len(ts) >= 3 /\ ts[1] = "IDENT" /\ ts[2] = "(" /\ ts[Len(ts)] = ")"
       /\ \/ Len(ts) = 3
          \/ IsArguments(SubSeq(ts, 3, Len(ts) - 1))

IsArguments(ts) ==
    \/ IsExpression(ts)
    \/ \E k \in 2..(Len(ts) - 1) :
          /\ ts[k] = ","
          /\ IsExpression(SubSeq(ts, 1, k - 1))
          /\ IsArguments(SubSeq(ts, k + 1, Len(ts)))

\* No node of the tree is nil
RECURSIVE Complete(_)
Complete(node) ==
    CASE node.kind = "nil" -> FALSE
      [] node.kind = "UnaryExpr" -> Complete(node.Expr)
      [] node.kind = "BinaryExpr" -> Complete(node.Left) /\ Complete(node.Right)
      [] node.kind = "CallExpr" -> \A i \in 1..Len(node.Args) : Complete(node.Args[i])
      [] OTHER -> TRUE

Count(ts, type) == Cardinality({i \in 1..Len(ts) : ts[i] = type})

\* The input is empty, holds a lexical error, or has an unbalanced
\* parenthesis
PlainlyMalformed(ts) ==
    \/ ts = <<>>
    \/ \E i \in 1..Len(ts) : ts[i] = "ERROR"
    \/ Count(ts, "(") # Count(ts, ")")

\* Compile returns an error for every input whose tokens are no expression
\* of the grammar (an operand is missing, a parenthesis is unbalanced,
\* tokens are left over, a token is an error token, there is no token), and
\* for the others an AST without a nil node
CompileRejectsMalformed ==
    ex.out # <<>> =>
        LET ts == TokenTypes(NewLexer(ex.input)) IN
        /\ ex.out[1].err = <<>> <=> IsExpression(ts)
        /\ PlainlyMalformed(ts) => ex.out[1].err # <<>>
        /\ ex.out[1].err = <<>> => Complete(ex.out[1].node)
        /\ ex.out[1].err # <<>> => ex.out[1].node = NilNode

\* C30 as stated: Compile returns an error, never an AST with a nil node,
\* for every malformed input, the empty one included, and NewFormula
\* reports each of these failures as InvalidExpression.
C30_CompileErrorsAsStated ==
    /\ CompileRejectsMalformed
    /\ ex.built # <<>> /\ ex.built[1].cfg.Formula = <<>> /\ ex.out[1].err # <<>>
       => ErrorsIs(ex.built[1].new.err, ErrInvalidExpression)

\* C30: Compile returns an error, never an AST with a nil node, for every
\* malformed input; NewFormula, given an id, a target and no formula
\* function, rejects the empty expression with InvalidRule, reports the
\* failure of Compile on any other expression as InvalidExpression, and
\* otherwise returns a rule that holds the AST.
C30_CompileErrors ==
    /\ CompileRejectsMalformed
    /\ ex.built # <<>> /\ ex.built[1].cfg.Formula = <<>>
       => LET new == ex.built[1].new IN
          IF ex.input = <<>>
          THEN ErrorsIs(new.err, ErrInvalidRule) /\ new.rule = <<>>
          ELSE IF ex.out[1].err # <<>>
          THEN ErrorsIs(new.err, ErrInvalidExpression) /\ new.rule = <<>>
          ELSE new.err = <<>> /\ new.rule[1].compiledExpr = <<ex.out[1].node>>

\* An expression that lacks an operand has been rejected by Compile and by
\* NewFormula, as InvalidExpression
C30_Witness ==
    /\ ex.input = <<"a", "-">>
    /\ ex.out # <<>> /\ ex.out[1].err # <<>>
    /\ ex.built # <<>> /\ ex.built[1].cfg.Formula = <<>>
    /\ ErrorsIs(ex.built[1].new.err, ErrInvalidExpression)

-----------------------------------------------------------------------------
(* C24: what NewAssignment and NewFormula accept *)

\* How many of the two alternative fields the configuration provides
Provided(kind, cfg) ==
    IF kind = "assignment"
    THEN (IF cfg.Value # Nil THEN 1 ELSE 0) + (IF cfg.ValueFunc # <<>> THEN 1 ELSE 0)
    ELSE (IF cfg.Formula # <<>> THEN 1 ELSE 0) + (IF cfg.Expression # <<>> THEN 1 ELSE 0)

\* C24 as stated: a constructor returns a rule only for a configuration
\* that provides exactly one of the two alternatives, and a configuration
\* that provides neither or both is rejected with InvalidRule.
C24_ExclusivityAsStated ==
    nr.new # <<>> =>
        /\ nr.new[1].err = <<>> => Provided(nr.kind, nr.cfg) = 1
        /\ Provided(nr.kind, nr.cfg) # 1 => ErrorsIs(nr.new[1].err, ErrInvalidRule)

\* What the constructors do: a configuration without id, without target or
\* with neither alternative is rejected with InvalidRule; one with both
\* alternatives is accepted like one with the function alone
NeitherRejected ==
    nr.new # <<>> =>
        /\ nr.cfg.ID = "" \/ nr.cfg.Target = <<>> \/ Provided(nr.kind, nr.cfg) = 0
           => ErrorsIs(nr.new[1].err, ErrInvalidRule) /\ nr.new[1].rule = <<>>
        /\ nr.cfg.ID # "" /\ nr.cfg.Target # <<>> /\ Provided(nr.kind, nr.cfg) = 2
           => nr.new[1].err = <<>> /\ nr.new[1].rule # <<>>

\* A configuration with both a value and a value function has been accepted
BothAccepted ==
    /\ nr.new # <<>> /\ nr.new[1].err = <<>>
    /\ Provided(nr.kind, nr.cfg) = 2

-----------------------------------------------------------------------------
(* C25: the error of a division by zero in an expression *)

ErrDivisionByZero == "ErrDivisionByZero"

\* The evaluation made was of a formula rule holding a compiled expression
EvaluatedExpression ==
    /\ nr.eval # <<>> /\ nr.kind = "formula"
    /\ nr.new[1].rule[1].formula = <<>> /\ nr.new[1].rule[1].compiledExpr # <<>>

EvaluatedNode == nr.new[1].rule[1].compiledExpr[1]

\* node is a / or % of two numbers of which the right one is zero
ZeroDivisor(node, values) ==
    /\ node.kind = "BinaryExpr" /\ node.Op \in {"/", "%"}
    /\ LET left == eval(node.Left, values)
           right == eval(node.Right, values)
       IN /\ left.err = <<>> /\ toFloat(left.v) # <<>>
          /\ right.err = <<>> /\ toFloat(right.v) = <<Frac(0, 1)>>

\* C25 as stated: when a formula rule evaluates a / or % whose right operand
\* evaluates to zero, the error it returns matches the DivisionByZero
\* sentinel.
C25_DivisionByZeroAsStated ==
    EvaluatedExpression /\ ZeroDivisor(EvaluatedNode, nr.eval[1].before)
    => ErrorsIs(nr.eval[1].out.err, ErrDivisionByZero)

\* What the evaluator does: the division fails, with an error that wraps
\* nothing, and the rule writes nothing
DivisionByZeroFails ==
    EvaluatedExpression /\ ZeroDivisor(EvaluatedNode, nr.eval[1].before)
    => /\ nr.eval[1].out.err # <<>>
       /\ nr.eval[1].out.err[1].Err \in {"division by zero", "modulo by zero"}
       /\ nr.eval[1].out.values = nr.eval[1].before

\* a / b has been evaluated with b = 0
DivisionByZeroReached ==
    /\ EvaluatedExpression /\ ZeroDivisor(EvaluatedNode, nr.eval[1].before)
    /\ nr.cfg.Expression = <<"a", "/", "b">>

-----------------------------------------------------------------------------
(* C26: the numeric types an expression widens *)

ArithmeticOperators == {"<", "<=", ">", ">=", "+", "-", "*", "/", "%"}

\* node is an arithmetic or comparison operator on a and b, or the negation
\* of a
OnContextOperands(node) ==
    \/ /\ node.kind = "BinaryExpr" /\ node.Op \in ArithmeticOperators
       /\ node.Left = Ident(<<"a">>) /\ node.Right = Ident(<<"b">>)
    \/ node = UnaryExpr("-", Ident(<<"a">>))

\* The operands of node in the context, when all are set
Operands(node, values) ==
    IF node.kind = "BinaryExpr" THEN {values[k] : k \in {<<"a">>, <<"b">>} \cap DOMAIN values}
    ELSE {values[k] : k \in {<<"a">>} \cap DOMAIN values}

OperandsSet(node, values) ==
    IF node.kind = "BinaryExpr" THEN {<<"a">>, <<"b">>} \subseteq DOMAIN values
    ELSE <<"a">> \in DOMAIN values

\* C26 as stated: an arithmetic or comparison operator whose operands are
\* read from the context evaluates without error when GetFloat64 accepts
\* every operand (and the divisor is not zero), and fails when an operand is
\* not numeric.
C26_UniformCoercionAsStated ==
    EvaluatedExpression /\ OnContextOperands(EvaluatedNode)
    /\ OperandsSet(EvaluatedNode, nr.eval[1].before)
    => LET operands == Operands(EvaluatedNode, nr.eval[1].before) IN
       /\ (\A v \in operands : toFloat64(v) # <<>>)
          /\ ~(EvaluatedNode.kind = "BinaryExpr" /\ EvaluatedNode.Op \in {"/", "%"}
               /\ toFloat64(nr.eval[1].before[<<"b">>]) = <<Frac(0, 1)>>)
          => nr.eval[1].out.err = <<>>
       /\ (\E v \in operands : toFloat64(v) = <<>>) => nr.eval[1].out.err # <<>>

\* What the evaluator does: the operator fails with "expected number"
\* exactly when an operand is not a float64, float32, int, int64 or int32
NarrowCoercion ==
    EvaluatedExpression /\ OnContextOperands(EvaluatedNode)
    /\ OperandsSet(EvaluatedNode, nr.eval[1].before)
    => LET operands == Operands(EvaluatedNode, nr.eval[1].before) IN
       (\E v \in operands : v.t \notin {"float64", "float32", "int", "int64", "int32"})
       <=> (nr.eval[1].out.err # <<>> /\ nr.eval[1].out.err[1].Err = ErrExpectedNumber)

\* a + b has been evaluated with a uint8 in a, and failed
Uint8Rejected ==
    /\ EvaluatedExpression /\ nr.cfg.Expression = <<"a", "+", "b">>
    /\ nr.eval[1].before[<<"b">>] = Float(Frac(4, 1))
    /\ <<"a">> \in DOMAIN nr.eval[1].before
    /\ nr.eval[1].before[<<"a">>] = Val("uint8", Frac(6, 1))
    /\ nr.eval[1].out.err # <<>>

-----------------------------------------------------------------------------
(* C28: the fields of a Result *)

\* newResult returns in this step
ResultAssembled == asm.pc = "success" /\ asm'.pc = "done"

\* C28 as stated: the Result that newResult returns has success exactly
\* when no rule error was collected and the context is not halted,
\* rules_failed equal to the number of errors and halted_by equal to the
\* context's halt source, also when goroutines halt the context meanwhile.
C28_ResultAsStated ==
    [][ResultAssembled =>
         /\ asm'.result[1].Success = (asm.nerr = 0 /\ ~IsHalted(hc'))
         /\ asm'.result[1].RulesFailed = asm.nerr
         /\ asm'.result[1].HaltedBy = HaltedBy(hc')]_vars

\* Evaluate returns a Result in this step
ResultReturned == run.pc # "returned" /\ run'.pc = "returned" /\ run'.result # <<>>

\* When nothing halts the context while newResult runs, the Result is as
\* stated: the fields are those of the context and of the error list at
\* the return
ResultFieldsAtReturn ==
    [][ResultReturned =>
         /\ run'.result[1].Success = (Len(run'.errors) = 0 /\ ~IsHalted(ec'))
         /\ run'.result[1].Errors = run'.errors
         /\ run'.result[1].RulesFailed = Len(run'.errors)
         /\ run'.result[1].HaltedBy = HaltedBy(ec')
         /\ run'.result[1].Context = ec'.ID]_vars

-----------------------------------------------------------------------------
(* C29: the counters of an eval context *)

\* A rule was evaluated in this step
RuleEvaluated == Len(hist') = Len(hist) + 1

CountersStep ==
    /\ ec'.rulesEvaluated >= ec.rulesEvaluated
    /\ ec'.errCount >= ec.errCount
    /\ ec'.rulesEvaluated + ec'.errCount =
           ec.rulesEvaluated + ec.errCount + (IF RuleEvaluated THEN 1 ELSE 0)

\* C29: no step of the engine, of a rule or of another goroutine (Evaluate
\* in every mode and called again on the same context, Halt, Set) decreases
\* rules_evaluated or the error counter, and the evaluation of a rule
\* increments exactly one of the two, by one.
C29_CountersMonotone == [][CountersStep]_vars

\* A second Evaluate call on a halted context has counted a success and a
\* failure on top of those of the first call
C29_Witness ==
    /\ evals = 2 /\ IsHalted(ec)
    /\ ec.rulesEvaluated >= 2 /\ ec.errCount >= 2

\* Delete leaves the counters alone
DeleteKeepsCounters ==
    [][(flast' # flast /\ flast'.op = "Delete") =>
          \A c \in CtxIds :
             /\ fc'[c].rulesEvaluated = fc[c].rulesEvaluated
             /\ fc'[c].errCount = fc[c].errCount]_vars

-----------------------------------------------------------------------------
(* C31: a rule that returns an error has written nothing *)

\* The last Evaluate on the context of SpecRules returned an error
RuleFailed == rc.last # <<>> /\ rc.last[1].err # <<>>

\* C31: when Evaluate of an assignment, formula, lookup, allocation or
\* buildup rule returns an error, the values and the buildups of the context
\* are exactly what they were before the call.
C31_ErrorWritesNothing ==
    RuleFailed =>
        /\ rc.values = rc.last[1].values
        /\ rc.buildups = rc.last[1].buildups

\* A rule of the variant kind failed in its second evaluation, after a first
\* one that wrote to the context
FailedAfterWrite(kind) ==
    /\ rc.kind = kind /\ RuleFailed /\ rc.evals = 2
    /\ rc.values # EmptyMap

\* A buildup rule with a target added to its buildup and wrote the target;
\* the source was then set to a string and the second evaluation failed
C31_Witness == FailedAfterWrite("buildup") /\ rc.buildups # EmptyMap /\ Has(rc, "x")

\* A failing ValueFunc fails every time: the values are those the caller set
C31_WitnessAssignment ==
    rc.kind = "assignment" /\ RuleFailed /\ Has(rc, <<"b">>) /\ ~Has(rc, <<"x">>)

C31_WitnessFormula == FailedAfterWrite("formula") /\ Has(rc, <<"x">>)

C31_WitnessLookup == FailedAfterWrite("lookup") /\ Has(rc, "rate")

C31_WitnessAllocation == FailedAfterWrite("allocation") /\ Has(rc, TargetKey(1))

-----------------------------------------------------------------------------
(* C39: the remainder key of an allocation rule *)

\* The last Evaluate on the context of SpecRules was of an allocation rule
\* and returned nil
AllocationReturned == rc.kind = "allocation" /\ rc.last # <<>> /\ rc.last[1].err = <<>>

\* The remainder that the last Evaluate computed
LastRemainder ==
    calculate(rc.rule, GetFloat64(rc.last[1].values, AllocSourceKey).v).remainder

\* The key is in both maps with one value, or in neither
SameAt(key, before, after) ==
    IF key \in DOMAIN before THEN key \in DOMAIN after /\ after[key] = before[key]
    ELSE key \notin DOMAIN after

\* C39: an allocation rule writes the remainder key exactly when a remainder
\* key is configured and the computed remainder is not zero; otherwise the
\* key is as it was before the evaluation, so that a remainder written by an
\* earlier evaluation on the same context stays.
C39_RemainderKey ==
    AllocationReturned =>
        IF rc.rule.remainder # "" /\ LastRemainder # Fin(0)
        THEN /\ rc.rule.remainder \in DOMAIN rc.values
             /\ rc.values[rc.rule.remainder] = Val("float64", LastRemainder)
        ELSE SameAt(RemainderKey, rc.last[1].values, rc.values)

\* The second evaluation computed the remainder 0 and the key still holds the
\* remainder of the first, which is not 0
C39_Witness ==
    /\ AllocationReturned /\ rc.evals = 2
    /\ rc.rule.remainder = RemainderKey
    /\ LastRemainder = Fin(0)
    /\ RemainderKey \in DOMAIN rc.values
    /\ rc.values[RemainderKey] # Val("float64", Fin(0))

-----------------------------------------------------------------------------
(* C32: expression evaluation is eager *)

\* The operands of node that eval evaluates before it applies the operator
\* or the function: both sides of && and ||, every argument of if
EagerOperands(node) ==
    IF node.kind = "BinaryExpr" /\ node.Op \in {"&&", "||"} THEN <<node.Left, node.Right>>
    ELSE IF node.kind = "CallExpr" /\ node.Name = <<"i", "f">> THEN node.Args
    ELSE <<>>

\* The error of the first operand that fails, <<>> when none does
RECURSIVE FirstFailure(_, _, _)
FirstFailure(operands, i, values) ==
    IF i > Len(operands) THEN <<>>
    ELSE IF eval(operands[i], values).err # <<>> THEN eval(operands[i], values).err
    ELSE FirstFailure(operands, i + 1, values)

\* The operand at i evaluates to the bool b
EvaluatesTo(node, i, b) ==
    eval(EagerOperands(node)[i], nr.eval[1].before) = EvalOk(Bool(b))

OperandFails(node, i) == eval(EagerOperands(node)[i], nr.eval[1].before).err # <<>>

\* C32: an && or || whose left or right operand fails, and an if(...) of
\* which any argument fails, fails with the error of the first operand that
\* does, whatever the other operands evaluate to; the formula rule returns
\* that error and writes nothing.
C32_Eager ==
    EvaluatedExpression
    /\ FirstFailure(EagerOperands(EvaluatedNode), 1, nr.eval[1].before) # <<>>
    => /\ nr.eval[1].out.err # <<>>
       /\ nr.eval[1].out.err[1].Err =
              FirstFailure(EagerOperands(EvaluatedNode), 1, nr.eval[1].before)[1].Err
       /\ nr.eval[1].out.values = nr.eval[1].before

\* if(b != 0, 10 / b, 0) with b = 0: the condition is false, the branch that
\* is not selected divides by zero, and the rule fails
C32_Witness ==
    /\ EvaluatedExpression
    /\ Len(EagerOperands(EvaluatedNode)) = 3
    /\ EvaluatesTo(EvaluatedNode, 1, FALSE)
    /\ OperandFails(EvaluatedNode, 2)
    /\ nr.eval[1].out.err # <<>>

\* false && (1 / 0 > 0): the left operand decides the conjunction and the
\* right one fails
C32_WitnessAnd ==
    /\ EvaluatedExpression
    /\ EvaluatedNode.kind = "BinaryExpr" /\ EvaluatedNode.Op = "&&"
    /\ EvaluatesTo(EvaluatedNode, 1, FALSE)
    /\ OperandFails(EvaluatedNode, 2)
    /\ nr.eval[1].out.err # <<>>

\* true || (1 / 0 > 0)
C32_WitnessOr ==
    /\ EvaluatedExpression
    /\ EvaluatedNode.kind = "BinaryExpr" /\ EvaluatedNode.Op = "||"
    /\ EvaluatesTo(EvaluatedNode, 1, TRUE)
    /\ OperandFails(EvaluatedNode, 2)
    /\ nr.eval[1].out.err # <<>>

\* The same if with b = 4 succeeds: the failure above is that of the branch
C32_IfSucceeds ==
    /\ EvaluatedExpression
    /\ Len(EagerOperands(EvaluatedNode)) = 3
    /\ EvaluatesTo(EvaluatedNode, 1, TRUE)
    /\ nr.eval[1].out.err = <<>>
    /\ nr.eval[1].out.values[<<"x">>] = Float(Frac(5, 2))

-----------------------------------------------------------------------------
(* C33: Result.RulesEvaluated over two calls on one context *)

\* C33: the RulesEvaluated of a Result is the context's counter, which is the
\* counter the call started with plus the successes of this call, while
\* RulesFailed counts the failures of this call alone; when the call started
\* with a counter of zero their sum is at most the number of rules.
C33_LifetimeCounter ==
    Returned /\ run.result # <<>> =>
        /\ run.result[1].RulesEvaluated = run.start.rulesEvaluated + Cardinality(Succeeded)
        /\ run.result[1].RulesEvaluated = ec.rulesEvaluated
        /\ run.result[1].RulesFailed = Cardinality(Failed)
        /\ run.start.rulesEvaluated = 0 =>
              run.result[1].RulesEvaluated + run.result[1].RulesFailed <= Len(run.rules)

\* The second call on the context returned a Result whose RulesEvaluated and
\* RulesFailed add up to more than the rules of the engine
C33_Witness ==
    /\ Returned /\ run.result # <<>> /\ evals = 2
    /\ run.start.rulesEvaluated > 0
    /\ Cardinality(Succeeded) > 0
    /\ run.result[1].RulesEvaluated + run.result[1].RulesFailed > Len(rules)

-----------------------------------------------------------------------------
(* C34: Halt with and without short circuit *)

\* The positions of hist at which the rule called Halt
Halters == {j \in 1..Len(hist) : hist[j].id = "h"}

\* The call returned, not by the timeout and not by the failure of a rule
\* under fail-fast
NoOtherExit == Returned /\ ~TimedOut /\ (config.Mode = ModeFailFast => Failed = {})

C34_WitnessShortCircuit ==
    /\ config.ShortCircuit /\ NoOtherExit
    /\ Halters # {} /\ Len(hist) < Len(run.rules)
    /\ run.err = <<>> /\ run.result[1].RulesEvaluated = Len(hist)
    /\ run.start.rulesEvaluated = 0

-----------------------------------------------------------------------------
\* C35: while a rule's function runs, the goroutine evaluating holds neither
\* the engine's lock nor the lock of the context being evaluated, so a rule
\* whose function calls AddRule, RegisterLookup, Set, Get, Halt or
\* GetOrCreateBuildup gets the lock it asks for and returns: every Evaluate
\* call that began returns, which it does only after each rule it started
\* has returned.
InRule(t) == re.g[t].pc = "rule"

HoldsNoLock(t) == ~Holds(re.emu, t) /\ ~Holds(re.cmu, t)

C35_NoDeadlock ==
    /\ [](\A t \in Evaluators : InRule(t) => HoldsNoLock(t))
    /\ \A t \in Evaluators : (re.g[t].pc # "idle") ~> (re.g[t].pc = "idle")

\* A rule's function called op during Evaluate and the call has returned
CallReturned(op) == \E t \in Evaluators : re.g[t].pc = "ruleEnd" /\ re.g[t].op = op

C35_Witness == CallReturned("AddRule") /\ re.nrules = MaxRuleList

C35_WitnessRegisterLookup == CallReturned("RegisterLookup") /\ re.nlookups = Cardinality(ReentryLookups)

C35_WitnessContext ==
    /\ CallReturned("Set")
    /\ \E t \in Evaluators : re.g[t].pc = "call" /\ re.g[t].op \in EngineCalls

C35_WitnessHalt == CallReturned("Halt") /\ re.halted /\ re.ShortCircuit

-----------------------------------------------------------------------------
\* C36: every span the driver starts is ended exactly once on every way out
\* of Evaluate (the end of the loop, the break on halt, the fail-fast return
\* and the timeout return), no span is ended twice, and while a rule runs
\* its span is the only rule span not yet ended: each rule span was ended,
\* with the error its rule returned, before the next rule started.
EvaluateReturned == tr.pc = "idle" /\ tr.exit \in {"end", "halt", "failfast", "timeout"}

RuleSpans == {k \in DOMAIN tr.spans : tr.spans[k].name = SpanRule}

\* The error the span of the call is ended with on each way out
ExitErr ==
    CASE tr.exit = "timeout" -> CtxErr
      [] tr.exit = "failfast" -> tr.ret
      [] OTHER -> ""

C36_SpansEndedOnce ==
    /\ \A k \in DOMAIN tr.spans : tr.spans[k].ended <= 1
    /\ EvaluateReturned =>
          /\ tr.spans # <<>> /\ tr.spans[1].name = SpanEvaluate
          /\ \A k \in DOMAIN tr.spans : tr.spans[k].ended = 1
          /\ tr.spans[1].err = ExitErr
    /\ tr.pc \in {"loop", "rule"} =>
          /\ tr.spans[1].ended = 0
          /\ \A k \in RuleSpans :
                tr.spans[k].ended = IF tr.pc = "rule" /\ k = Len(tr.spans) THEN 0 ELSE 1
    /\ \A k \in RuleSpans :
          tr.spans[k].ended = 1 => tr.spans[k].err = OutcomeErr(tr.rules[tr.spans[k].rule])
    /\ tr.pc = "idle" /\ tr.exit \in {"closed", "nil"} => tr.spans = <<>>

C36_Witness ==
    /\ EvaluateReturned /\ tr.exit = "failfast"
    /\ Cardinality(RuleSpans) > 1

C36_WitnessTimeout == EvaluateReturned /\ tr.exit = "timeout" /\ RuleSpans # {}

C36_WitnessHalt == EvaluateReturned /\ tr.exit = "halt" /\ RuleSpans # {}

C36_WitnessEnd ==
    /\ EvaluateReturned /\ tr.exit = "end"
    /\ \E k \in RuleSpans : tr.spans[k].err # ""

-----------------------------------------------------------------------------
\* C37: AddRules and RegisterLookups stop at the first element that is
\* rejected and return its error; the elements before it stay registered,
\* in their order, and no element after it is registered.
BatchReturned(op) == eg.call.op = op /\ eg.call.pc = "idle"

\* The elements the call went through without an error
Accepted == SubSeq(eg.call.list, 1, eg.call.pos - 1)

\* The engine had Close not been called
NotClosed == [eg EXCEPT !.closed = FALSE]

RECURSIVE WithLookups(_, _)
WithLookups(lookups, list) ==
    IF list = <<>> THEN lookups
    ELSE WithLookups([lookups EXCEPT ![Head(list).name] = Head(list).table], Tail(list))

C37_BatchPrefix ==
    /\ BatchReturned("AddRules") =>
          /\ eg.rules = eg.call.rules0 \o Accepted
          /\ eg.call.err = "" <=> eg.call.pos = Len(eg.call.list) + 1
          /\ eg.call.err # "" =>
                eg.call.err \in {ErrEngineClosed,
                                 AddRuleErr(NotClosed, eg.call.list[eg.call.pos])}
          /\ eg.call.err = ErrEngineClosed => eg.closed
    /\ BatchReturned("RegisterLookups") =>
          /\ eg.lookups = WithLookups(eg.call.lookups0, Accepted)
          /\ \A i, j \in 1..Len(Accepted) : i # j => Accepted[i].name # Accepted[j].name
          /\ \A i \in 1..Len(Accepted) : eg.call.lookups0[Accepted[i].name] = NoTable
          /\ eg.call.err = "" <=> eg.call.pos = Len(eg.call.list) + 1
          /\ eg.call.err # "" =>
                eg.call.err \in {ErrEngineClosed,
                                 RegisterLookupErr(NotClosed, eg.call.list[eg.call.pos])}
          /\ eg.call.err = ErrEngineClosed => eg.closed

\* A batch of three whose second element was rejected
RejectedInTheMiddle(op) ==
    /\ BatchReturned(op)
    /\ eg.call.err # "" /\ eg.call.pos = 2 /\ Len(eg.call.list) > 2

C37_Witness ==
    /\ RejectedInTheMiddle("AddRules")
    /\ eg.call.err = ErrDuplicateRule
    /\ eg.call.list[3] \notin eg.ruleIDs

C37_WitnessLookups ==
    /\ RejectedInTheMiddle("RegisterLookups")
    /\ eg.call.err = ErrDuplicateLookup
    /\ eg.lookups[eg.call.list[3].name] = NoTable

C37_WitnessClosed ==
    /\ RejectedInTheMiddle("AddRules")
    /\ eg.call.err = ErrEngineClosed

C37_WitnessMaxRules ==
    /\ RejectedInTheMiddle("AddRules")
    /\ eg.call.err = ErrInvalidRule

-----------------------------------------------------------------------------
\* C38: Evaluate binds every lookup of the engine into the eval context
\* under its name, in place of a lookup the caller registered on the
\* context under that name; a name only the context has keeps its table and
\* a rule's Lookup finds it; the engine rejects a lookup whose name it
\* already has with ErrDuplicateLookup and keeps the table it had.
Evaluated == eg.call.op = "Evaluate" /\ eg.call.err = ""

DuplicateRejected ==
    /\ BatchReturned("RegisterLookups")
    /\ eg.call.err = ErrDuplicateLookup

C38_EngineLookupsBound ==
    /\ Evaluated =>
          \A n \in RegistryNames :
             /\ eg.call.lookups0[n] # NoTable =>
                   LookupTable(eg.ctx, n) = [table |-> eg.call.lookups0[n], err |-> ""]
             /\ eg.call.lookups0[n] = NoTable => eg.ctx[n] = eg.call.ctx0[n]
             /\ eg.call.lookups0[n] = NoTable /\ eg.call.ctx0[n] # NoTable =>
                   LookupTable(eg.ctx, n) = [table |-> eg.call.ctx0[n], err |-> ""]
             /\ eg.lookups[n] = eg.call.lookups0[n]
    /\ DuplicateRejected =>
          LET name == eg.call.list[eg.call.pos].name IN
          /\ eg.call.lookups0[name] # NoTable
          /\ eg.lookups = eg.call.lookups0

\* The context had its own table under a name of the engine, and a table
\* under a name the engine does not have
C38_Witness ==
    /\ Evaluated
    /\ \E n \in RegistryNames :
          /\ eg.call.ctx0[n] # NoTable /\ eg.call.lookups0[n] # NoTable
          /\ eg.call.ctx0[n] # eg.call.lookups0[n]
    /\ \E n \in RegistryNames :
          eg.call.ctx0[n] # NoTable /\ eg.call.lookups0[n] = NoTable

C38_WitnessDuplicate ==
    /\ DuplicateRejected
    /\ eg.call.list[eg.call.pos].table # eg.lookups[eg.call.list[eg.call.pos].name]

=============================================================================
